---------------------------- MODULE Spec2Model ----------------------------
(***************************************************************************)
(* Internet-Mood-Radar: the in-memory core (relevance / deduplication,     *)
(* emotion and tension scoring, TF-IDF clustering, day-over-day deltas).   *)
(*                                                                         *)
(* Strings are TLC strings, read character by character with SubSeq.       *)
(* JavaScript numbers that are fractions are exact rationals <<n, d>>      *)
(* (d > 0, lowest terms); the transcendental functions (exp, log10, ln)    *)
(* are tabulated on the arguments the bounded inputs produce.              *)
(***************************************************************************)
EXTENDS Integers, Sequences, FiniteSets, TLC

VARIABLES
    input,      \* the arguments of the call under study (a record tagged by fn)
    output,     \* the value the call returned (NoValue before the call)
    pc,         \* "start" before the call, "done" after it
    memo,       \* results of the pure text functions on the pool items,
                \* computed once when a run starts and only read afterwards
    cachedKeywords  \* the module variable of src/lib/language.ts that
                \* setRelevanceKeywords writes and scoreRelevance reads:
                \* Null, or [list |-> the keywords]

vars == <<input, output, pc, memo, cachedKeywords>>

NoValue == [none |-> TRUE]

\* JavaScript's null.
Null == [null |-> TRUE]

-----------------------------------------------------------------------------
(* Bounds of the model.                                                    *)

MaxItems == 3

\* f itself, with every value computed (a function written [x \in S |-> e]
\* is otherwise computed anew at each application).
Evaluated(f) == f @@ f

-----------------------------------------------------------------------------
(* Rational arithmetic (JavaScript doubles, taken exactly).                *)

RECURSIVE GCD(_, _)
GCD(a, b) == IF b = 0 THEN a ELSE GCD(b, a % b)

Abs(n) == IF n < 0 THEN -n ELSE n

Rat(n, d) ==
    LET s == IF d < 0 THEN -1 ELSE 1
        g == GCD(Abs(n), Abs(d))
    IN  <<(s * n) \div g, (s * d) \div g>>

Zero == <<0, 1>>
One == <<1, 1>>
RInt(n) == <<n, 1>>
\* x + y over the least common denominator (keeps the integers small).
RAdd(x, y) ==
    LET g == GCD(x[2], y[2])
    IN  Rat(x[1] * (y[2] \div g) + y[1] * (x[2] \div g), (x[2] \div g) * y[2])
RNeg(x) == <<-x[1], x[2]>>
RSub(x, y) == RAdd(x, RNeg(y))
RMul(x, y) ==
    LET g1 == GCD(Abs(x[1]), y[2])
        g2 == GCD(Abs(y[1]), x[2])
    IN  Rat((x[1] \div g1) * (y[1] \div g2), (x[2] \div g2) * (y[2] \div g1))
RDiv(x, y) == RMul(x, Rat(y[2], y[1]))
RECURSIVE FracLe(_, _, _, _)
\* a / b <= c / d for b, d > 0, by continued fractions: no product is formed.
FracLe(a, b, c, d) ==
    IF a \div b # c \div d THEN a \div b < c \div d
    ELSE IF a % b = 0 THEN TRUE
    ELSE IF c % d = 0 THEN FALSE
    ELSE FracLe(d, c % d, b, a % b)

RLe(x, y) == FracLe(x[1], x[2], y[1], y[2])
RLt(x, y) == ~RLe(y, x)
RGe(x, y) == RLe(y, x)
RGt(x, y) == RLt(y, x)
RMax(x, y) == IF RLt(x, y) THEN y ELSE x
RMin(x, y) == IF RLt(y, x) THEN y ELSE x

-----------------------------------------------------------------------------
(* Strings.                                                                *)

UpperChars == "ABCDEFGHIJKLMNOPQRSTUVWXYZ"
LowerChars == "abcdefghijklmnopqrstuvwxyz"
DigitChars == "0123456789"

Ch(s, i) == SubSeq(s, i, i)

\* Position of character c in alphabet a, 0 when it is not there.
IndexOf(c, a) ==
    IF \E i \in 1..Len(a) : Ch(a, i) = c
    THEN CHOOSE i \in 1..Len(a) : Ch(a, i) = c
    ELSE 0

CharsOf(a) == {Ch(a, i) : i \in 1..Len(a)}
UpperSet == CharsOf(UpperChars)
LowerSet == CharsOf(LowerChars)
DigitSet == CharsOf(DigitChars)

IsUpper(c) == c \in UpperSet
IsLower(c) == c \in LowerSet
IsDigit(c) == c \in DigitSet
IsLetter(c) == IsUpper(c) \/ IsLower(c)
\* \w of a JavaScript regular expression.
IsWordChar(c) == IsLetter(c) \/ IsDigit(c) \/ c = "_"
\* \s of a JavaScript regular expression (the inputs hold spaces only).
IsSpace(c) == c = " "

LowerChar(c) == IF IsUpper(c) THEN Ch(LowerChars, IndexOf(c, UpperChars)) ELSE c

RECURSIVE LowerRange(_, _, _)
\* The characters lo..hi of s in lower case (split in halves: the depth of
\* the recursion is logarithmic in the length).
LowerRange(s, lo, hi) ==
    IF lo > hi THEN ""
    ELSE IF lo = hi THEN LowerChar(Ch(s, lo))
    ELSE LET mid == (lo + hi) \div 2
         IN  LowerRange(s, lo, mid) \o LowerRange(s, mid + 1, hi)

\* String.prototype.toLowerCase
toLowerCase(s) == LowerRange(s, 1, Len(s))

\* String.prototype.startsWith at position i (1-based).
StartsWithAt(s, sub, i) ==
    /\ i + Len(sub) - 1 <= Len(s)
    /\ SubSeq(s, i, i + Len(sub) - 1) = sub

\* String.prototype.includes
includes(s, sub) == \E i \in 1..(Len(s) + 1) : StartsWithAt(s, sub, i)

\* String.prototype.slice(0, n)
slice0(s, n) == SubSeq(s, 1, IF Len(s) < n THEN Len(s) ELSE n)

\* First position >= i of s holding one of the characters of stops,
\* Len(s) + 1 when there is none.
FindFirst(s, stops, i) ==
    LET hits == {k \in i..Len(s) : Ch(s, k) \in CharsOf(stops)}
    IN  IF hits = {} THEN Len(s) + 1
        ELSE CHOOSE k \in hits : \A m \in hits : k <= m

\* The k-th smallest element of a set of integers.
KthSmallest(S, k) == CHOOSE i \in S : Cardinality({j \in S : j < i}) = k - 1

\* s.split(/\s+/) without the empty pieces: the maximal runs of non-space
\* characters of s, in order.
SplitWords(s) ==
    LET starts == {i \in 1..Len(s) :
                      ~IsSpace(Ch(s, i)) /\ (i = 1 \/ IsSpace(Ch(s, i - 1)))}
        endOf(i) == FindFirst(s, " ", i) - 1
    IN  [k \in 1..Cardinality(starts) |->
            LET i == KthSmallest(starts, k) IN SubSeq(s, i, endOf(i))]

Range(seq) == {seq[i] : i \in 1..Len(seq)}

-----------------------------------------------------------------------------
(* URL utilities (src/lib/utils/url.ts).                                   *)

\* new URL(url) for absolute http(s) URLs without port, credentials or
\* escapes: ok = FALSE is the TypeError the constructor throws.
ParseUrl(url) ==
    LET low    == toLowerCase(url)
        skip   == IF StartsWithAt(low, "https://", 1) THEN 8
                  ELSE IF StartsWithAt(low, "http://", 1) THEN 7
                  ELSE 0
        hEnd   == FindFirst(url, "/?#", skip + 1)
        pEnd   == FindFirst(url, "?#", hEnd)
        host   == toLowerCase(SubSeq(url, skip + 1, hEnd - 1))
        path   == SubSeq(url, hEnd, pEnd - 1)
    IN  IF skip = 0 \/ host = ""
        THEN [ok |-> FALSE, hostname |-> "", pathname |-> ""]
        ELSE [ok |-> TRUE, hostname |-> host,
              pathname |-> IF path = "" THEN "/" ELSE path]

\* s.replace(/^www\./, '')
StripWww(s) == IF StartsWithAt(s, "www.", 1) THEN SubSeq(s, 5, Len(s)) ELSE s

\* s.replace(/\/$/, '')
StripTrailingSlash(s) ==
    IF Len(s) > 0 /\ Ch(s, Len(s)) = "/" THEN SubSeq(s, 1, Len(s) - 1) ELSE s

\* s.replace(/^https?:\/\//, '')
StripProtocol(s) ==
    IF StartsWithAt(s, "https://", 1) THEN SubSeq(s, 9, Len(s))
    ELSE IF StartsWithAt(s, "http://", 1) THEN SubSeq(s, 8, Len(s))
    ELSE s

\* normalizeUrl(url) with its default options (every caller in the core).
normalizeUrl(url) ==
    LET parsed == ParseUrl(url)
    IN  IF parsed.ok
        THEN toLowerCase(StripWww(parsed.hostname)
                         \o StripTrailingSlash(parsed.pathname))
        ELSE StripTrailingSlash(StripWww(StripProtocol(toLowerCase(url))))

extractDomain(url) ==
    LET parsed == ParseUrl(url)
    IN  IF parsed.ok THEN StripWww(parsed.hostname) ELSE ""

-----------------------------------------------------------------------------
(* Similarity of two items (src/lib/language.ts).                          *)

RECURSIVE KeepAlnumSpace(_, _, _, _)
\* s.replace(/[^\p{L}\p{N}\s]/gu, repl) on the characters lo..hi of s.
KeepAlnumSpace(s, repl, lo, hi) ==
    IF lo > hi THEN ""
    ELSE IF lo = hi
    THEN LET c == Ch(s, lo)
         IN  IF IsLetter(c) \/ IsDigit(c) \/ IsSpace(c) THEN c ELSE repl
    ELSE LET mid == (lo + hi) \div 2
         IN  KeepAlnumSpace(s, repl, lo, mid) \o KeepAlnumSpace(s, repl, mid + 1, hi)

StripPunctuation(s, repl) == KeepAlnumSpace(s, repl, 1, Len(s))

LongerThan(seq, n) == SelectSeq(seq, LAMBDA w : Len(w) > n)

\* tokenize(text): the set of words longer than 2, punctuation deleted.
tokenize(text) ==
    Range(LongerThan(SplitWords(StripPunctuation(toLowerCase(text), "")), 2))

jaccardSimilarity(a, b) ==
    IF a = {} /\ b = {} THEN Zero
    ELSE Rat(Cardinality(a \cap b), Cardinality(a \cup b))

\* End of the run of \w characters that starts at i (i - 1 when it is empty).
WordRunEnd(s, i) ==
    LET stops == {k \in i..Len(s) : ~IsWordChar(Ch(s, k))}
    IN  IF stops = {} THEN Len(s)
        ELSE (CHOOSE k \in stops : \A m \in stops : k <= m) - 1

\* End of the run of \s characters that starts at i (i - 1 when it is empty).
SpaceRunEnd(s, i) ==
    LET stops == {k \in i..Len(s) : ~IsSpace(Ch(s, k))}
    IN  IF stops = {} THEN Len(s)
        ELSE (CHOOSE k \in stops : \A m \in stops : k <= m) - 1

\* The maximal runs of \w characters of s: what a regular expression
\* anchored by \b on both sides can match.
WordRuns(s) ==
    {SubSeq(s, i, WordRunEnd(s, i)) :
        i \in {k \in 1..Len(s) :
                  IsWordChar(Ch(s, k)) /\ (k = 1 \/ ~IsWordChar(Ch(s, k - 1)))}}

AllDigits(w) == \A i \in 1..Len(w) : IsDigit(Ch(w, i))
AllLower(w) == \A i \in 1..Len(w) : IsLower(Ch(w, i))

\* /\b\d+(?:\.\d+)?%?\b/g on a text without '.' and '%': the all-digit runs.
NumberMatches(text) ==
    {w \in WordRuns(text) : AllDigits(w)}

\* /\b[A-Z][a-z]{2,}\b/g
CapitalizedMatches(text) ==
    {w \in WordRuns(text) :
        /\ Len(w) >= 3
        /\ IsUpper(Ch(w, 1))
        /\ AllLower(SubSeq(w, 2, Len(w)))}

RECURSIVE QuotedFrom(_, _)
\* /"([^"]+)"/g: the matches (quotes included) from position i on; the
\* recursion steps from one quote character to the next.
QuotedFrom(s, i) ==
    LET open == FindFirst(s, "\"", i)
        close == FindFirst(s, "\"", open + 1)
    IN  IF open > Len(s) \/ close > Len(s) THEN {}
        ELSE IF close = open + 1 THEN QuotedFrom(s, close)
        ELSE {SubSeq(s, open, close)} \cup QuotedFrom(s, close + 1)

\* Where the match of /(?:p1|p2|...)\s+\w+/i that starts at i ends, 0 when
\* none starts there (low is s in lower case).
PrefixedEnd(s, low, prefixes, i) ==
    LET hits == {k \in 1..Len(prefixes) : StartsWithAt(low, prefixes[k], i)}
    IN  IF hits = {} THEN 0
        ELSE LET k   == CHOOSE h \in hits : \A m \in hits : h <= m
                 sp  == i + Len(prefixes[k])
                 spE == SpaceRunEnd(s, sp)
                 wE  == WordRunEnd(s, spE + 1)
             IN  IF spE >= sp /\ wE > spE THEN wE ELSE 0

RECURSIVE PrefixedFrom(_, _, _, _)
\* /(?:p1|p2|...)\s+\w+/gi: the matches from position i on; the recursion
\* steps from one match to the next.
PrefixedFrom(s, low, prefixes, i) ==
    LET starts == {k \in i..Len(s) : PrefixedEnd(s, low, prefixes, k) > 0}
    IN  IF starts = {} THEN {}
        ELSE LET k == CHOOSE h \in starts : \A m \in starts : h <= m
                 e == PrefixedEnd(s, low, prefixes, k)
             IN  {SubSeq(s, k, e)} \cup PrefixedFrom(s, low, prefixes, e + 1)

PrefixedMatches(s, prefixes) == PrefixedFrom(s, toLowerCase(s), prefixes, 1)

TitlePrefixes == <<"president", "pm", "minister", "ceo", "cfo">>
HonorificPrefixes == <<"mr.", "mrs.", "dr.", "prof.">>

extractKeyEntities(text) ==
    NumberMatches(text)
    \cup {toLowerCase(w) : w \in CapitalizedMatches(text)}
    \cup {toLowerCase(q) : q \in QuotedFrom(text, 1)}
    \cup {toLowerCase(m) : m \in PrefixedMatches(text, TitlePrefixes)}
    \cup {toLowerCase(m) : m \in PrefixedMatches(text, HonorificPrefixes)}

PhraseStopWords ==
    {"the", "and", "for", "are", "but", "not", "you", "all", "can", "has",
     "have", "was", "were", "been", "being", "will", "would", "could",
     "should", "that", "this", "with", "from", "they", "which", "their",
     "there", "what", "about", "into", "more", "other", "than", "then",
     "these", "some"}

\* extractPhrases(text): the three-word phrases, in order, repeats kept.
extractPhrases(text) ==
    LET words == LongerThan(SplitWords(StripPunctuation(toLowerCase(text), " ")), 2)
        phraseAt(i) == words[i] \o " " \o words[i + 1] \o " " \o words[i + 2]
        keep == {i \in 1..(Len(words) - 2) :
                    /\ words[i] \notin PhraseStopWords
                    /\ words[i + 2] \notin PhraseStopWords
                    /\ Len(phraseAt(i)) > 10}
    IN  [i \in keep |-> phraseAt(i)]

\* `${item.title} ${item.text || ''}`
CombinedText(item) == item.title \o " " \o item.text

isSameStory(a, b) ==
    LET entitiesA == extractKeyEntities(CombinedText(a))
        entitiesB == extractKeyEntities(CombinedText(b))
        intersection == entitiesA \cap entitiesB
        sizeA == Cardinality(entitiesA)
        sizeB == Cardinality(entitiesB)
        minSize == IF sizeA < sizeB THEN sizeA ELSE sizeB
        phrasesA == extractPhrases(CombinedText(a))
        phrasesB == extractPhrases(CombinedText(b))
        \* phrasesA.filter(p => phrasesB.includes(p)).length
        shared == Cardinality({i \in DOMAIN phrasesA :
                                  \E j \in DOMAIN phrasesB : phrasesB[j] = phrasesA[i]})
    IN  IF sizeA < 2 \/ sizeB < 2 THEN FALSE
        ELSE IF /\ RGe(Rat(Cardinality(intersection), minSize), Rat(6, 10))
                /\ Cardinality(intersection) >= 3
             THEN TRUE
             ELSE shared >= 2

calculateSimilarity(a, b) ==
    LET titleSimilarity == jaccardSimilarity(tokenize(a.title), tokenize(b.title))
        titleALower == toLowerCase(a.title)
        titleBLower == toLowerCase(b.title)
        hasSubstringMatch ==
            \/ Len(titleALower) > 20 /\ includes(titleBLower, slice0(titleALower, 30))
            \/ Len(titleBLower) > 20 /\ includes(titleALower, slice0(titleBLower, 30))
        domainA == extractDomain(a.url)
        domainB == extractDomain(b.url)
        textSimilarity == jaccardSimilarity(tokenize(a.text), tokenize(b.text))
    IN  IF a.url # "" /\ b.url # "" /\ normalizeUrl(a.url) = normalizeUrl(b.url)
        THEN One
        ELSE IF hasSubstringMatch
        THEN RMax(titleSimilarity, Rat(85, 100))
        ELSE IF /\ RGt(titleSimilarity, Rat(1, 2))
                /\ domainA # "" /\ domainB # "" /\ domainA = domainB
        THEN RMax(titleSimilarity, Rat(8, 10))
        ELSE IF RGt(titleSimilarity, Rat(3, 10)) /\ isSameStory(a, b)
        THEN RMax(titleSimilarity, Rat(75, 100))
        ELSE IF RGt(titleSimilarity, Rat(4, 10))
        THEN IF RGt(textSimilarity, Rat(1, 2))
             THEN RMax(RAdd(RMul(titleSimilarity, Rat(4, 10)),
                            RMul(textSimilarity, Rat(6, 10))), Rat(7, 10))
             ELSE RAdd(RMul(titleSimilarity, Rat(7, 10)),
                       RMul(textSimilarity, Rat(3, 10)))
        ELSE titleSimilarity

-----------------------------------------------------------------------------
(* The items the deduplication runs draw their inputs from.                *)

\* Sentinel for an optional number that is not set.
Undefined == <<0, 0>>

Item(id, title, text, url, engagement, duplicateOf) ==
    [id |-> id, title |-> title, text |-> text, url |-> url,
     engagement |-> engagement, duplicateOf |-> duplicateOf,
     source |-> "search", createdAt |-> 0, relevanceScore |-> Undefined]

DedupPool ==
    { Item("a", "Rocket attack on Tel Aviv", "", "https://example.com/a", 50, ""),
      Item("b", "Markets rally after rate cut", "", "http://example.com/a", 80, ""),
      Item("c", "Quiet day in the north", "", "https://www.example.com/a/", 50, ""),
      Item("d", "Tel Aviv Rocket barrage today", "", "https://news.org/x", 30, ""),
      Item("e", "Rocket attack on Tel Aviv leaves city on alert", "",
           "https://other.net/y?ref=1", 10, ""),
      Item("f", "Markets rally again after rate cut", "", "https://Example.com/b", 80, "a"),
      Item("g", "Storm hits coast towns", "heavy rain floods roads and homes",
           "", 20, ""),
      Item("h", "Storm hits coast villages", "heavy rain floods roads and farms",
           "example.com/a/", 20, "") }

\* calculateSimilarity on every pair of pool items.
PoolSimilarity ==
    Evaluated([p \in DedupPool \X DedupPool |->
                  calculateSimilarity(p[1], p[2])])

\* The call calculateSimilarity(item, existing) of the inner loop.
similarityOf(item, existing) ==
    IF "similarity" \in DOMAIN memo
         /\ <<item, existing>> \in DOMAIN memo.similarity
    THEN memo.similarity[<<item, existing>>]
    ELSE calculateSimilarity(item, existing)

-----
(* Deduplication (src/lib/language.ts).                                    *)

RECURSIVE InsertByEngagement(_, _)
\* item put into the descending list sorted, after every element that does
\* not compare greater (Array.prototype.sort is stable).
InsertByEngagement(sorted, item) ==
    IF sorted = <<>> THEN <<item>>
    ELSE IF sorted[1].engagement >= item.engagement
         THEN <<sorted[1]>> \o InsertByEngagement(Tail(sorted), item)
         ELSE <<item>> \o sorted

RECURSIVE SortFrom(_, _, _)
SortFrom(items, i, acc) ==
    IF i > Len(items) THEN acc
    ELSE SortFrom(items, i + 1, InsertByEngagement(acc, items[i]))

Reverse(seq) == [i \in 1..Len(seq) |-> seq[Len(seq) + 1 - i]]

\* A descending sort written as an ascending sort reversed: equal
\* engagements come out in reverse input order.
sortAscendingReversed(items) == SortFrom(Reverse(items), 1, <<>>)

\* An ascending sort: the lowest engagement is processed first.
sortAscending(items) == Reverse(SortFrom(Reverse(items), 1, <<>>))

\* [...items].sort((a, b) => b.engagement - a.engagement)
sortByEngagement(items) == SortFrom(items, 1, <<>>)

\* Compares with the most recently accepted item only.
isDuplicateOfLast(item, unique, threshold) ==
    /\ unique # <<>>
    /\ RGe(similarityOf(item, unique[Len(unique)]), threshold)

\* The inner loop: similarity >= threshold with some accepted item.
isDuplicateOfAccepted(item, unique, threshold) ==
    \E k \in 1..Len(unique) : RGe(similarityOf(item, unique[k]), threshold)

\* item.url ? normalizeUrl(item.url) : ''
NormalizedUrlOf(item) == IF item.url # "" THEN normalizeUrl(item.url) ELSE ""

RECURSIVE DedupLoop(_, _, _, _, _)
\* The for-loop over sorted from position i, with the accepted items and
\* the normalized URLs seen so far.
DedupLoop(sorted, i, unique, seenUrls, threshold) ==
    IF i > Len(sorted) THEN unique
    ELSE LET item == sorted[i]
             normalizedUrl == NormalizedUrlOf(item)
         IN  IF normalizedUrl # "" /\ normalizedUrl \in seenUrls
             THEN DedupLoop(sorted, i + 1, unique, seenUrls, threshold)
             ELSE IF isDuplicateOfAccepted(item, unique, threshold)
             THEN DedupLoop(sorted, i + 1, unique, seenUrls, threshold)
             ELSE DedupLoop(sorted, i + 1, Append(unique, item),
                            IF normalizedUrl # "" THEN seenUrls \cup {normalizedUrl}
                            ELSE seenUrls,
                            threshold)

deduplicateItems(items, similarityThreshold) ==
    DedupLoop(sortByEngagement(items), 1, <<>>, {}, similarityThreshold)

-----------------------------------------------------------------------------------------------------------------------------------------------------
(* The deduplication runs.                                                 *)

ThresholdSet == {Rat(3, 10), Rat(1, 2), Rat(9, 10)}

RECURSIVE SeqsUpTo(_, _)
\* Every sequence over S of length at most n.
SeqsUpTo(S, n) ==
    IF n = 0 THEN {<<>>}
    ELSE LET shorter == SeqsUpTo(S, n - 1)
         IN  shorter \cup {Append(q, x) : q \in {r \in shorter : Len(r) = n - 1}, x \in S}

InitDedup ==
    /\ input \in {[fn |-> "deduplicateItems", items |-> its, threshold |-> t] :
                    its \in SeqsUpTo(DedupPool, MaxItems), t \in ThresholdSet}
    /\ output = NoValue
    /\ pc = "start"
    /\ memo = [similarity |-> PoolSimilarity]
    /\ cachedKeywords = Null

Deduplicate ==
    /\ pc = "start"
    /\ input.fn = "deduplicateItems"
    /\ output' = deduplicateItems(input.items, input.threshold)
    /\ pc' = "done"
    /\ UNCHANGED <<input, memo, cachedKeywords>>

NextDedup == Deduplicate

SpecDedup == InitDedup /\ [][NextDedup]_vars

-----------------------------------------------------------------------------
(* Properties of deduplicateItems.                                         *)

DedupDone == pc = "done" /\ input.fn = "deduplicateItems"

\* How many positions of seq hold x.
Count(seq, x) == Cardinality({i \in 1..Len(seq) : seq[i] = x})

\* The items of the input of which the output holds fewer copies.
Dropped == {x \in Range(input.items) : Count(output, x) < Count(input.items, x)}

SameNormalizedUrl(x, y) ==
    NormalizedUrlOf(x) # "" /\ NormalizedUrlOf(x) = NormalizedUrlOf(y)

MaxEngagement(items) ==
    CHOOSE e \in {items[i].engagement : i \in 1..Len(items)} :
        \A i \in 1..Len(items) : items[i].engagement <= e

\* C1: deduplicating the output of deduplicateItems again, with the same
\* threshold, returns the same items in the same order.
C1_Idempotent ==
    DedupDone => deduplicateItems(output, input.threshold) = output

\* A run that dropped an item, kept at least two, and is left unchanged by
\* a second pass.
C1_Witness ==
    /\ DedupDone
    /\ Len(output) >= 2
    /\ Len(output) < Len(input.items)
    /\ deduplicateItems(output, input.threshold) = output

\* C2: every dropped item has a survivor of at least its engagement that
\* has its normalized URL or is similar to it at the threshold; a list whose
\* items all have one normalized URL leaves one survivor, of the highest
\* engagement.
C2_Representative ==
    DedupDone =>
        /\ \A x \in Dropped :
              \E k \in 1..Len(output) :
                 /\ output[k].engagement >= x.engagement
                 /\ \/ SameNormalizedUrl(x, output[k])
                    \/ RGe(calculateSimilarity(x, output[k]), input.threshold)
        /\ (/\ input.items # <<>>
            /\ \A i \in 1..Len(input.items) :
                  SameNormalizedUrl(input.items[i], input.items[1]))
           => /\ Len(output) = 1
              /\ output[1].engagement = MaxEngagement(input.items)

\* Three items whose URLs differ in protocol, www and trailing slash only,
\* the most engaged in the middle: it alone survives.
C2_Witness ==
    /\ DedupDone
    /\ Len(input.items) = 3
    /\ Cardinality({input.items[i].url : i \in 1..3}) = 3
    /\ \A i \in 1..3 : NormalizedUrlOf(input.items[i]) = "example.com/a"
    /\ input.items[2].engagement > input.items[1].engagement
    /\ Len(output) = 1
    /\ output[1] = input.items[2]

\* C3: the output holds no two items of one non-empty normalized URL and no
\* item similar, at the threshold, to an item before it.
C3_PairwiseDistinct ==
    DedupDone =>
        \A j \in 1..Len(output) : \A i \in 1..(j - 1) :
            /\ ~SameNormalizedUrl(output[j], output[i])
            /\ RLt(calculateSimilarity(output[j], output[i]), input.threshold)

\* Three survivors, and an item dropped for its similarity to a survivor
\* other than the last one accepted before it.
C3_Witness ==
    /\ DedupDone
    /\ Len(output) >= 2
    /\ \E x \in Dropped :
          /\ \A k \in 1..Len(output) : ~SameNormalizedUrl(x, output[k])
          /\ RGe(calculateSimilarity(x, output[1]), input.threshold)
          /\ RLt(calculateSimilarity(x, output[2]), input.threshold)
          /\ x.engagement < output[2].engagement

\* C4 as stated: every returned item is an input item and has duplicateOf
\* unset, whatever the input items carry.
C4_ReturnedUnmarked ==
    DedupDone =>
        \A k \in 1..Len(output) :
            /\ output[k] \in Range(input.items)
            /\ output[k].duplicateOf = ""

-----------------------------------------------------------------------------
(* Emotion scoring (src/lib/mood.ts, configuration in config.ts).          *)

EMOTIONS ==
    <<"anger", "anxiety", "sadness", "resilience", "hope", "excitement",
      "cynicism", "neutral">>

EmotionSet == Range(EMOTIONS)

EMOTION_KEYWORDS ==
    [anger |->
        <<"angry", "furious", "outrage", "rage", "hate", "disgusting",
          "unacceptable", "infuriating", "livid", "enraged", "hostile",
          "bitter", "protest", "riot", "condemn", "denounce", "fury", "wrath",
          "outraged">>,
     anxiety |->
        <<"worried", "anxious", "fear", "scared", "threat", "danger",
          "warning", "alert", "crisis", "emergency", "concern", "uncertain",
          "risk", "tension", "volatile", "unstable", "alarming", "concerning",
          "troubling", "nervous">>,
     sadness |->
        <<"sad", "tragic", "death", "killed", "victim", "mourn", "grief",
          "loss", "devastated", "heartbreaking", "mourning", "sorrow",
          "painful", "funeral", "tragedy", "disaster", "casualties",
          "suffering">>,
     resilience |->
        <<"strong", "resilient", "united", "together", "fight", "defend",
          "brave", "hero", "courage", "solidarity", "endure", "persevere",
          "overcome", "survive", "determined", "steadfast", "unwavering">>,
     hope |->
        <<"hope", "peace", "progress", "improve", "better", "optimistic",
          "breakthrough", "promising", "recovery", "rebuild", "healing",
          "resolution", "agreement", "deal", "success", "positive", "growth">>,
     excitement |->
        <<"exciting", "amazing", "great", "success", "win", "celebrate",
          "achievement", "victory", "triumph", "historic", "milestone",
          "breakthrough", "incredible", "remarkable", "stunning", "impressive">>,
     cynicism |->
        <<"lol", "lmao", "yeah right", "sure", "typical", "surprise",
          "expected", "joke", "as usual", "nothing new", "of course",
          "predictable", "unsurprising", "ironic", "sarcastic">>,
     neutral |-> <<>>]

createEmptyDistribution == Evaluated([e \in EmotionSet |-> Zero])

NeutralDistribution == [createEmptyDistribution EXCEPT !["neutral"] = One]

RECURSIVE SumRats(_, _)
\* The sum of seq[i] for i in the set of positions idx.
SumRats(seq, idx) ==
    IF idx = {} THEN Zero
    ELSE IF Cardinality(idx) = 1 THEN seq[CHOOSE k \in idx : TRUE]
    ELSE LET low == {k \in idx :
                        Cardinality({j \in idx : j < k})
                          < Cardinality(idx) \div 2}
         IN  RAdd(SumRats(seq, low), SumRats(seq, idx \ low))

\* Object.values(dist).reduce((a, b) => a + b, 0)
SumOf(dist) ==
    SumRats([i \in 1..Len(EMOTIONS) |-> dist[EMOTIONS[i]]], 1..Len(EMOTIONS))

\* Forgets neutral = 1 when the sum is 0.
normalizeDistributionNoNeutral(dist) ==
    LET sum == SumOf(dist)
    IN  IF sum = Zero THEN createEmptyDistribution
        ELSE [e \in EmotionSet |-> RDiv(dist[e], sum)]

normalizeDistribution(dist) ==
    LET sum == SumOf(dist)
    IN  IF sum = Zero THEN NeutralDistribution
        ELSE Evaluated([e \in EmotionSet |-> RDiv(dist[e], sum)])

\* The keywords of a category (list positions) that occur in text.
KeywordMatches(emotion, text) ==
    {k \in 1..Len(EMOTION_KEYWORDS[emotion]) :
        includes(text, toLowerCase(EMOTION_KEYWORDS[emotion][k]))}

\* Stops counting a category at its first keyword found.
scoreItemEmotionsFirstMatch(item) ==
    LET text == toLowerCase(CombinedText(item))
        dist == Evaluated([e \in EmotionSet |->
                    IF e = "neutral" \/ KeywordMatches(e, text) = {} THEN Zero
                    ELSE One])
        totalMatches == SumOf(dist)
    IN  IF totalMatches = Zero
        THEN normalizeDistribution([dist EXCEPT !["neutral"] = One])
        ELSE normalizeDistribution(dist)

scoreItemEmotions(item) ==
    LET text == toLowerCase(CombinedText(item))
        dist == Evaluated([e \in EmotionSet |->
                    IF e = "neutral" THEN Zero
                    ELSE RInt(Cardinality(KeywordMatches(e, text)))])
        totalMatches == SumOf(dist)
    IN  IF totalMatches = Zero
        THEN normalizeDistribution([dist EXCEPT !["neutral"] = One])
        ELSE normalizeDistribution(dist)

-----------------------------------------------------------------------------
(* Item weight (src/lib/utils.ts, src/lib/mood.ts).                        *)
(* Time is counted in half-lives of 6 hours; exp(-0.693 * age) is taken as *)
(* 2^(-age), which it equals to four decimal places.                       *)

RECURSIVE Pow2(_)
Pow2(n) == IF n = 0 THEN 1 ELSE 2 * Pow2(n - 1)

\* recencyWeight(createdAt) read when the clock shows now.
recencyWeight(createdAt, now) ==
    LET age == now - createdAt
    IN  IF age >= 0 THEN Rat(1, Pow2(age)) ELSE RInt(Pow2(-age))

EngagementCap == 1000

capEngagement(engagement) ==
    IF engagement < EngagementCap THEN engagement ELSE EngagementCap

\* Math.log10 on the arguments the inputs produce, to three decimals.
log10(x) ==
    CASE x = 1 -> Zero
      [] x = 2 -> Rat(301, 1000)
      [] x = 10 -> RInt(1)
      [] x = 100 -> RInt(2)
      [] x = 1000 -> RInt(3)
      [] x = 1002 -> Rat(3001, 1000)

\* item.relevanceScore ?? 0.5
relevanceOf(item) ==
    IF item.relevanceScore = Undefined THEN Rat(1, 2) ELSE item.relevanceScore

\* recency * Math.log10(engagement + 2) * relevance
itemWeight(item, now) ==
    RMul(RMul(recencyWeight(item.createdAt, now),
              log10(capEngagement(item.engagement) + 2)),
         relevanceOf(item))

-----------------------------------------------------------------------------
(* The items the emotion runs draw their inputs from.                      *)

MoodItem(id, title, text, engagement, createdAt, relevanceScore, duplicateOf) ==
    [id |-> id, source |-> "search", title |-> title, text |-> text,
     url |-> "", engagement |-> engagement, createdAt |-> createdAt,
     relevanceScore |-> relevanceScore, duplicateOf |-> duplicateOf]

MoodPool ==
    { MoodItem("m1", "Outraged crowd joins PROTEST", "", 8, 0, Undefined, ""),
      MoodItem("m2", "Hope for peace deal", "a breakthrough success", 98, 1,
               One, ""),
      MoodItem("m3", "Council meets on Monday", "", 0, 2, Rat(1, 2), ""),
      MoodItem("m4", "Oh yeah", "right on time", 5000, 0, Rat(3, 10), ""),
      MoodItem("m5", "Victims mourn after tragedy", "", 998, 1, Zero, ""),
      MoodItem("m6", "Fear and danger", "", 98, 2, One, "m1") }

\* The items the clustering runs draw their inputs from.
ClusterPool ==
    { MoodItem("c1", "Rocket attack on Tel Aviv",
               "Sirens sound across the city after the attack", 98, 2, One, ""),
      MoodItem("c2", "Tel Aviv rocket attack injures two", "", 8, 1,
               Undefined, ""),
      MoodItem("c3", "Markets rally after rate cut", "", 998, 0, Rat(1, 2), ""),
      MoodItem("c4", "Stock markets rally on hopes of a rate cut", "", 0, 2,
               One, ""),
      MoodItem("c5", "Rocket attack on Tel Aviv", "", 5000, 2, One, "c1"),
      MoodItem("c6", "It is what it is", "", 98, 1, One, "") }

\* scoreItemEmotions on every pool item.
PoolEmotions ==
    Evaluated([item \in MoodPool \cup ClusterPool |-> scoreItemEmotions(item)])

\* The call scoreItemEmotions(item) of aggregateEmotions.
itemEmotionsOf(item) ==
    IF "emotions" \in DOMAIN memo /\ item \in DOMAIN memo.emotions
    THEN memo.emotions[item]
    ELSE scoreItemEmotions(item)

RECURSIVE AggregateLoopAll(_, _, _, _, _)
\* Counts every item, marked as a duplicate or not.
AggregateLoopAll(items, now, i, weighted, totalWeight) ==
    IF i > Len(items) THEN <<weighted, totalWeight>>
    ELSE LET itemEmotions == itemEmotionsOf(items[i])
             weight == itemWeight(items[i], now)
         IN  AggregateLoopAll(items, now, i + 1,
                 Evaluated([e \in EmotionSet |->
                     RAdd(weighted[e], RMul(itemEmotions[e], weight))]),
                 RAdd(totalWeight, weight))

RECURSIVE AggregateLoop(_, _, _, _, _)
\* The loop of aggregateEmotions from item i on: <<weighted, totalWeight>>.
AggregateLoop(items, now, i, weighted, totalWeight) ==
    IF i > Len(items) THEN <<weighted, totalWeight>>
    ELSE IF items[i].duplicateOf # ""
    THEN AggregateLoop(items, now, i + 1, weighted, totalWeight)
    ELSE LET itemEmotions == itemEmotionsOf(items[i])
             weight == itemWeight(items[i], now)
         IN  AggregateLoop(items, now, i + 1,
                 Evaluated([e \in EmotionSet |->
                     RAdd(weighted[e], RMul(itemEmotions[e], weight))]),
                 RAdd(totalWeight, weight))

aggregateEmotions(items, now) ==
    IF Len(items) = 0 THEN normalizeDistribution(createEmptyDistribution)
    ELSE LET r == AggregateLoop(items, now, 1, createEmptyDistribution, Zero)
             weighted == r[1]
             totalWeight == r[2]
         IN  IF totalWeight = Zero
             THEN normalizeDistribution(createEmptyDistribution)
             ELSE normalizeDistribution(
                      Evaluated([e \in EmotionSet |->
                                    RDiv(weighted[e], totalWeight)]))

-----------------------------------------------------------------------------
(* Runs of the emotion functions.                                          *)

MaxCount == 2

\* Raw (pre-normalized) distributions: up to three categories carry counts.
RawDistributions ==
    {[e \in EmotionSet |->
        IF e = "anger" THEN RInt(a)
        ELSE IF e = "hope" THEN RInt(h)
        ELSE IF e = "neutral" THEN Rat(n, 2)
        ELSE Zero] : a \in 0..MaxCount, h \in 0..MaxCount, n \in 0..MaxCount}

ClockSet == {1, 3}

InitMood ==
    /\ input \in
         {[fn |-> "normalizeDistribution", dist |-> d] : d \in RawDistributions}
         \cup {[fn |-> "scoreItemEmotions", item |-> it] : it \in MoodPool}
         \cup {[fn |-> "aggregateEmotions", items |-> its, now |-> n] :
                 its \in SeqsUpTo(MoodPool, MaxItems), n \in ClockSet}
    /\ output = NoValue
    /\ pc = "start"
    /\ memo = [emotions |-> PoolEmotions]
    /\ cachedKeywords = Null

Normalize ==
    /\ pc = "start"
    /\ input.fn = "normalizeDistribution"
    /\ output' = normalizeDistribution(input.dist)
    /\ pc' = "done"
    /\ UNCHANGED <<input, memo, cachedKeywords>>

ScoreItem ==
    /\ pc = "start"
    /\ input.fn = "scoreItemEmotions"
    /\ output' = scoreItemEmotions(input.item)
    /\ pc' = "done"
    /\ UNCHANGED <<input, memo, cachedKeywords>>

Aggregate ==
    /\ pc = "start"
    /\ input.fn = "aggregateEmotions"
    /\ output' = aggregateEmotions(input.items, input.now)
    /\ pc' = "done"
    /\ UNCHANGED <<input, memo, cachedKeywords>>

NextMood == Normalize \/ ScoreItem \/ Aggregate

SpecMood == InitMood /\ [][NextMood]_vars

IsDistribution(dist) ==
    /\ DOMAIN dist = EmotionSet
    /\ \A e \in EmotionSet : RGe(dist[e], Zero)
    /\ SumOf(dist) = One

OnlyNeutral(dist) ==
    \A e \in EmotionSet : dist[e] = IF e = "neutral" THEN One ELSE Zero

RECURSIVE WeightSum(_, _, _)
\* The sum of the weights of the items aggregateEmotions does not skip.
WeightSum(items, now, i) ==
    IF i > Len(items) THEN Zero
    ELSE RAdd(IF items[i].duplicateOf # "" THEN Zero
              ELSE itemWeight(items[i], now),
              WeightSum(items, now, i + 1))

\* C5: normalizeDistribution, scoreItemEmotions and aggregateEmotions return
\* non-negative values over the 8 categories that sum to 1, and exactly
\* neutral = 1 when the input is all-zero, the item list is empty or the
\* total weight is 0.
C5_Distribution ==
    (pc = "done" /\ input.fn \in {"normalizeDistribution", "scoreItemEmotions",
                                  "aggregateEmotions"})
    => /\ IsDistribution(output)
       /\ (input.fn = "normalizeDistribution"
             /\ \A e \in EmotionSet : input.dist[e] = Zero)
          => OnlyNeutral(output)
       /\ (input.fn = "aggregateEmotions"
             /\ (Len(input.items) = 0
                   \/ WeightSum(input.items, input.now, 1) = Zero))
          => OnlyNeutral(output)

C5_Witness ==
    /\ pc = "done"
    /\ input.fn = "aggregateEmotions"
    /\ Len(input.items) = MaxItems
    /\ WeightSum(input.items, input.now, 1) # Zero
    /\ Cardinality({e \in EmotionSet : output[e] # Zero}) >= 4

\* kw occurs in text at some position.
Occurs(kw, text) ==
    \E i \in 1..Len(text) : i + Len(kw) - 1 <= Len(text)
                              /\ SubSeq(text, i, i + Len(kw) - 1) = kw

\* The number of a category's keywords found in the item's lowercased
\* "title text".
Hits(e, item) ==
    Cardinality({k \in 1..Len(EMOTION_KEYWORDS[e]) :
        Occurs(EMOTION_KEYWORDS[e][k], toLowerCase(CombinedText(item)))})

TotalHits(item) ==
    Hits("anger", item) + Hits("anxiety", item) + Hits("sadness", item)
      + Hits("resilience", item) + Hits("hope", item)
      + Hits("excitement", item) + Hits("cynicism", item)

\* C6: scoreItemEmotions gives neutral = 1 and 0 elsewhere when no keyword
\* is found; otherwise neutral is 0 and each other category is its number of
\* keywords found divided by the number found over all categories.
C6_KeywordShares ==
    (pc = "done" /\ input.fn = "scoreItemEmotions")
    => IF TotalHits(input.item) = 0 THEN OnlyNeutral(output)
       ELSE /\ output["neutral"] = Zero
            /\ \A e \in EmotionSet \ {"neutral"} :
                 output[e] = Rat(Hits(e, input.item), TotalHits(input.item))

C6_Witness ==
    /\ pc = "done"
    /\ input.fn = "scoreItemEmotions"
    /\ output["hope"] = Rat(5, 7)
    /\ output["excitement"] = Rat(2, 7)

-----------------------------------------------------------------------------
(* Tension index (src/lib/mood.ts, weights in config.ts).                  *)

EMOTION_WEIGHTS ==
    [negative |-> [anger |-> Rat(10, 10), anxiety |-> Rat(10, 10),
                   sadness |-> Rat(7, 10), cynicism |-> Rat(4, 10)],
     positive |-> [resilience |-> Rat(5, 10), hope |-> Rat(7, 10),
                   excitement |-> Rat(3, 10)],
     positiveReductionFactor |-> Rat(5, 10)]

Floor(x) == x[1] \div x[2]

\* Math.round: the nearest integer, halves going up.
MathRound(x) == Floor(RAdd(x, Rat(1, 2)))

MinInt(a, b) == IF a < b THEN a ELSE b

NegativeScore(emotions) ==
    RAdd(RAdd(RAdd(RMul(emotions["anger"], EMOTION_WEIGHTS.negative.anger),
                   RMul(emotions["anxiety"], EMOTION_WEIGHTS.negative.anxiety)),
              RMul(emotions["sadness"], EMOTION_WEIGHTS.negative.sadness)),
         RMul(emotions["cynicism"], EMOTION_WEIGHTS.negative.cynicism))

PositiveScore(emotions) ==
    RAdd(RAdd(RMul(emotions["resilience"], EMOTION_WEIGHTS.positive.resilience),
              RMul(emotions["hope"], EMOTION_WEIGHTS.positive.hope)),
         RMul(emotions["excitement"], EMOTION_WEIGHTS.positive.excitement))

\* Subtracts the positive score without the reduction factor.
calculateTensionIndexUnreduced(emotions) ==
    LET tension == RMax(Zero, RSub(NegativeScore(emotions),
                                   PositiveScore(emotions)))
    IN  MinInt(100, MathRound(RMul(tension, RInt(100))))

calculateTensionIndex(emotions) ==
    LET tension ==
            RMax(Zero, RSub(NegativeScore(emotions),
                            RMul(PositiveScore(emotions),
                                 EMOTION_WEIGHTS.positiveReductionFactor)))
    IN  MinInt(100, MathRound(RMul(tension, RInt(100))))

MaxDen == 4

\* Distributions whose values are multiples of 1/MaxDen and sum to 1.
UnitDistributions ==
    {[e \in EmotionSet |-> Rat(c[e], MaxDen)] :
        c \in {k \in [EmotionSet -> 0..MaxDen] :
                 k["anger"] + k["anxiety"] + k["sadness"] + k["resilience"]
                   + k["hope"] + k["excitement"] + k["cynicism"]
                   + k["neutral"] = MaxDen}}

InitTension ==
    /\ input \in {[fn |-> "calculateTensionIndex", emotions |-> d] :
                    d \in UnitDistributions}
    /\ output = NoValue
    /\ pc = "start"
    /\ memo = NoValue
    /\ cachedKeywords = Null

Tension ==
    /\ pc = "start"
    /\ input.fn = "calculateTensionIndex"
    /\ output' = calculateTensionIndex(input.emotions)
    /\ pc' = "done"
    /\ UNCHANGED <<input, memo, cachedKeywords>>

NextTension == Tension

SpecTension == InitTension /\ [][NextTension]_vars

\* 100 * (anger + anxiety + 0.7 sadness + 0.4 cynicism
\*          - 0.5 (0.5 resilience + 0.7 hope + 0.3 excitement)), not clamped.
Tension100(d) ==
    RSub(RAdd(RAdd(RMul(RInt(100), d["anger"]), RMul(RInt(100), d["anxiety"])),
              RAdd(RMul(RInt(70), d["sadness"]), RMul(RInt(40), d["cynicism"]))),
         RAdd(RAdd(RMul(RInt(25), d["resilience"]), RMul(RInt(35), d["hope"])),
              RMul(RInt(15), d["excitement"])))

\* r is min(100, round(v)) for v >= 0, halves rounding up.
IsClampedRound(r, v) ==
    /\ r \in 0..100
    /\ IF RGe(v, Rat(199, 2)) THEN r = 100
       ELSE /\ RLe(Rat(2 * r - 1, 2), v)
            /\ RLt(v, Rat(2 * r + 1, 2))

\* C7: for a distribution of non-negative values summing to 1,
\* calculateTensionIndex is the integer min(100, round(100 * max(0, anger +
\* anxiety + 0.7 sadness + 0.4 cynicism - 0.5 (0.5 resilience + 0.7 hope +
\* 0.3 excitement)))) in 0..100; all-neutral gives 0, all-anger gives 100.
C7_TensionIndex ==
    (pc = "done" /\ input.fn = "calculateTensionIndex")
    => /\ output \in 0..100
       /\ IsClampedRound(output, RMax(Zero, Tension100(input.emotions)))
       /\ OnlyNeutral(input.emotions) => output = 0
       /\ input.emotions["anger"] = One => output = 100

C7_Witness ==
    /\ pc = "done"
    /\ input.fn = "calculateTensionIndex"
    /\ IsDistribution(input.emotions)
    /\ input.emotions["sadness"] = Rat(1, 4)
    /\ input.emotions["hope"] = Rat(1, 4)
    /\ output = 9

-----------------------------------------------------------------------------
(* Day-over-day deltas (snapshot.ts).                                      *)

MaxInt(a, b) == IF a > b THEN a ELSE b

\* topic.keywords.filter((k) => yesterdayTopic.keywords.includes(k)).length
KeywordOverlap(topic, yesterdayTopic) ==
    Len(SelectSeq(topic.keywords,
                  LAMBDA k : k \in Range(yesterdayTopic.keywords)))

\* The shorter of the two keyword lists.
minKeywordsOf(topic, yesterdayTopic) ==
    MinInt(Len(topic.keywords), Len(yesterdayTopic.keywords))

\* Math.max(topic.keywords.length, yesterdayTopic.keywords.length)
maxKeywordsOf(topic, yesterdayTopic) ==
    MaxInt(Len(topic.keywords), Len(yesterdayTopic.keywords))

RECURSIVE BestMatchFrom(_, _, _, _)
\* The loop over yesterday's topics from position i on.
BestMatchFrom(topic, topTopics, i, bestMatch) ==
    IF i > Len(topTopics) THEN bestMatch
    ELSE LET overlap == KeywordOverlap(topic, topTopics[i])
             maxKeywords == maxKeywordsOf(topic, topTopics[i])
             similarity ==
                 IF maxKeywords > 0 THEN Rat(overlap, maxKeywords) ELSE Zero
         IN  BestMatchFrom(topic, topTopics, i + 1,
                           RMax(bestMatch, similarity))

NewTopicThreshold == Rat(3, 10)

\* A loaded snapshot always carries a topTopics array, so the second half of
\* the guard (!yesterdaySnapshot.topTopics) never fires.
calculateTopicDelta(topic, yesterdaySnapshot) ==
    IF yesterdaySnapshot = Null THEN 0
    ELSE IF RLt(BestMatchFrom(topic, yesterdaySnapshot.topTopics, 1, Zero),
                NewTopicThreshold)
    THEN 1
    ELSE 0

applyTopicDeltas(topics, yesterdaySnapshot) ==
    [i \in 1..Len(topics) |->
        [topics[i] EXCEPT !.delta = calculateTopicDelta(topics[i],
                                                        yesterdaySnapshot)]]

\* Subtracts today's value from yesterday's.
calculateTensionDeltaReversed(currentTension, yesterdaySnapshot) ==
    IF yesterdaySnapshot = Null THEN 0
    ELSE yesterdaySnapshot.tensionIndex - currentTension

calculateTensionDelta(currentTension, yesterdaySnapshot) ==
    IF yesterdaySnapshot = Null THEN 0
    ELSE currentTension - yesterdaySnapshot.tensionIndex

-----------------------------------------------------------------------------
(* Runs of the delta functions.                                            *)

KeywordLists ==
    { <<>>,
      <<"rocket">>,
      <<"rocket", "attack", "city">>,
      <<"market", "rally">>,
      <<"rocket", "storm", "coast", "flood">>,
      <<"rocket", "attack", "city", "alert", "siren", "shelter", "north",
        "border", "night", "army">> }

MaxSnapshotTopics == 2

TensionSet == {0, 40, 60, 100}

TodayTopic(keywords) == [keywords |-> keywords, delta |-> 0]

YesterdayTopic(keywords) == [keywords |-> keywords, receiptIds |-> <<>>]

Snapshot(tensionIndex, topTopics) ==
    [date |-> "yesterday", tensionIndex |-> tensionIndex,
     topTopics |-> topTopics]

TopicSnapshots ==
    {Null} \cup {Snapshot(40, tt) :
                   tt \in SeqsUpTo({YesterdayTopic(k) : k \in KeywordLists},
                                   MaxSnapshotTopics)}

InitDelta ==
    /\ input \in
         {[fn |-> "calculateTopicDelta", topic |-> TodayTopic(k),
           snapshot |-> s] : k \in KeywordLists, s \in TopicSnapshots}
         \cup {[fn |-> "applyTopicDeltas", topics |-> ts, snapshot |-> s] :
                 ts \in SeqsUpTo({TodayTopic(k) : k \in KeywordLists},
                                 MaxSnapshotTopics),
                 s \in TopicSnapshots}
         \cup {[fn |-> "calculateTensionDelta", current |-> c, snapshot |-> s] :
                 c \in TensionSet,
                 s \in {Null} \cup {Snapshot(t, <<>>) : t \in TensionSet}}
    /\ output = NoValue
    /\ pc = "start"
    /\ memo = NoValue
    /\ cachedKeywords = Null

TopicDelta ==
    /\ pc = "start"
    /\ input.fn = "calculateTopicDelta"
    /\ output' = calculateTopicDelta(input.topic, input.snapshot)
    /\ pc' = "done"
    /\ UNCHANGED <<input, memo, cachedKeywords>>

ApplyDeltas ==
    /\ pc = "start"
    /\ input.fn = "applyTopicDeltas"
    /\ output' = applyTopicDeltas(input.topics, input.snapshot)
    /\ pc' = "done"
    /\ UNCHANGED <<input, memo, cachedKeywords>>

TensionDelta ==
    /\ pc = "start"
    /\ input.fn = "calculateTensionDelta"
    /\ output' = calculateTensionDelta(input.current, input.snapshot)
    /\ pc' = "done"
    /\ UNCHANGED <<input, memo, cachedKeywords>>

NextDelta == TopicDelta \/ ApplyDeltas \/ TensionDelta

SpecDelta == InitDelta /\ [][NextDelta]_vars

\* The keywords of topic that yesterday's topic y also lists.
SharedKeywords(topic, y) ==
    {i \in 1..Len(topic.keywords) :
        \E j \in 1..Len(y.keywords) : y.keywords[j] = topic.keywords[i]}

\* |shared| / max(len, len) < 0.3, a pair of empty lists sharing nothing.
FarFrom(topic, y) ==
    10 * Cardinality(SharedKeywords(topic, y))
        < 3 * MaxInt(MaxInt(Len(topic.keywords), Len(y.keywords)), 1)

\* What the delta of one topic has to be, from that topic and the snapshot.
ExpectedTopicDelta(topic, snapshot) ==
    IF snapshot = Null THEN 0
    ELSE IF \A j \in 1..Len(snapshot.topTopics) :
                FarFrom(topic, snapshot.topTopics[j])
    THEN 1
    ELSE 0

\* C9: calculateTopicDelta is 0 without a snapshot; otherwise 1 exactly when
\* the largest share of common keywords with any of yesterday's topics is
\* below 0.3; each of today's topics is judged on its own, so two of them
\* may match the same topic of yesterday.
C9_TopicDelta ==
    /\ (pc = "done" /\ input.fn = "calculateTopicDelta")
       => output = ExpectedTopicDelta(input.topic, input.snapshot)
    /\ (pc = "done" /\ input.fn = "applyTopicDeltas")
       => /\ Len(output) = Len(input.topics)
          /\ \A i \in 1..Len(output) :
               output[i].delta =
                   ExpectedTopicDelta(input.topics[i], input.snapshot)

C9_Witness ==
    /\ pc = "done"
    /\ input.fn = "applyTopicDeltas"
    /\ input.snapshot # Null
    /\ Len(input.snapshot.topTopics) = 1
    /\ Len(input.topics) = 2
    /\ input.topics[1] # input.topics[2]
    /\ output[1].delta = 0
    /\ output[2].delta = 0

\* C10: calculateTensionDelta is 0 without a snapshot and current minus
\* yesterday's tensionIndex otherwise; yesterday 40 and today 60 give 20.
C10_TensionDelta ==
    (pc = "done" /\ input.fn = "calculateTensionDelta")
    => /\ input.snapshot = Null => output = 0
       /\ input.snapshot # Null
          => output = input.current - input.snapshot.tensionIndex
       /\ (input.snapshot # Null /\ input.snapshot.tensionIndex = 40
             /\ input.current = 60)
          => output = 20

C10_Witness ==
    /\ pc = "done"
    /\ input.fn = "calculateTensionDelta"
    /\ input.snapshot # Null
    /\ input.snapshot.tensionIndex = 40
    /\ input.current = 60
    /\ output = 20

-----------------------------------------------------------------------------
(* Topic clustering (src/lib/clustering.ts).                               *)

ENGLISH_STOP_WORDS ==
    {"the", "a", "an", "and", "or", "but", "in", "on", "at", "to", "for", "of",
     "with", "by", "from", "as", "is", "was", "are", "were", "been", "be",
     "have", "has", "had", "do", "does", "did", "will", "would", "could",
     "should", "may", "might", "must", "can", "this", "that", "these", "those",
     "it", "its", "he", "she", "they", "we", "you", "who", "what", "where",
     "when", "why", "how", "all", "each", "every", "both", "few", "more",
     "most", "other", "some", "such", "no", "not", "only", "same", "so",
     "than", "too", "very", "just", "also", "now", "new", "said", "says",
     "according", "report", "reports", "reported", "after", "before"}

\* The inputs hold no Hebrew, so only the English half of the set matters.
isStopWord(term) == toLowerCase(term) \in ENGLISH_STOP_WORDS

extractTerms(text) ==
    SelectSeq(SplitWords(StripPunctuation(toLowerCase(text), " ")),
              LAMBDA term : Len(term) > 1 /\ ~isStopWord(term))

MaxOf(S) == CHOOSE m \in S : \A k \in S : k <= m

\* The term frequencies of a text: a function on the terms it holds.
calculateTF(text) ==
    LET terms == extractTerms(text)
        count(t) == Cardinality({i \in 1..Len(terms) : terms[i] = t})
        maxFreq == MaxOf({count(t) : t \in Range(terms)} \cup {1})
    IN  Evaluated([t \in Range(terms) |-> Rat(count(t), maxFreq)])

\* Math.log to two decimals, on the quotients docCount / (df + 1) that the
\* documents of the runs produce.
MathLog(x) ==
    CASE x = Rat(1, 2) -> Rat(-69, 100)
      [] x = Rat(2, 3) -> Rat(-41, 100)
      [] x = Rat(3, 4) -> Rat(-29, 100)
      [] x = Rat(4, 5) -> Rat(-22, 100)
      [] x = Rat(5, 6) -> Rat(-18, 100)
      [] x = Rat(6, 7) -> Rat(-15, 100)
      [] x = Rat(7, 8) -> Rat(-13, 100)
      [] x = Rat(8, 9) -> Rat(-12, 100)
      [] x = Rat(1, 1) -> Zero
      [] x = Rat(5, 4) -> Rat(22, 100)
      [] x = Rat(4, 3) -> Rat(29, 100)
      [] x = Rat(3, 2) -> Rat(41, 100)
      [] x = Rat(5, 3) -> Rat(51, 100)
      [] x = Rat(2, 1) -> Rat(69, 100)
      [] x = Rat(5, 2) -> Rat(92, 100)

\* documents: a sequence of term-frequency functions.
calculateIDF(documents) ==
    LET docCount == Len(documents)
        keys == UNION {DOMAIN documents[i] : i \in 1..docCount}
        termDocCount(t) ==
            Cardinality({i \in 1..docCount : t \in DOMAIN documents[i]})
    IN  Evaluated([t \in keys |->
            RAdd(MathLog(Rat(docCount, termDocCount(t) + 1)), One)])

CodeUnitOrder == "0123456789abcdefghijklmnopqrstuvwxyz"

\* The place of a digit or lower-case letter among the UTF-16 code units.
CodeUnitRank ==
    Evaluated([c \in CharsOf(CodeUnitOrder) |-> IndexOf(c, CodeUnitOrder)])

RECURSIVE StringLessFrom(_, _, _)
\* a < b, the characters before position i being the same in both.
StringLessFrom(a, b, i) ==
    IF i > Len(a) THEN i <= Len(b)
    ELSE IF i > Len(b) THEN FALSE
    ELSE IF Ch(a, i) = Ch(b, i) THEN StringLessFrom(a, b, i + 1)
    ELSE CodeUnitRank[Ch(a, i)] < CodeUnitRank[Ch(b, i)]

\* a < b as Array.prototype.sort compares strings (UTF-16 code units).
StringLess(a, b) == StringLessFrom(a, b, 1)

\* Object.keys(idf).sort(): the keys by the number of keys below each (no
\* two keys are equal).
SortedStrings(S) ==
    LET below == Evaluated([t \in S |->
                     Cardinality({u \in S : StringLess(u, t)})])
    IN  Evaluated([k \in 1..Cardinality(S) |->
            CHOOSE t \in S : below[t] = k - 1])

\* dotProduct, normA and normB of the loop of cosineSimilarity.
DotProduct(a, b) ==
    SumRats(Evaluated([i \in 1..Len(a) |-> RMul(a[i], b[i])]), 1..Len(a))

\* cosineSimilarity(a, b) >= threshold for vectors without negative entries.
\* The quotient dot / (sqrt(normA) * sqrt(normB)) is compared through its
\* square: dot / normA >= threshold^2 * normB / dot.
cosineAtLeast(a, b, threshold) ==
    IF Len(a) # Len(b) THEN RLe(threshold, Zero)
    ELSE LET dotProduct == DotProduct(a, b)
             normA == DotProduct(a, a)
             normB == DotProduct(b, b)
         IN  IF normA = Zero \/ normB = Zero THEN RLe(threshold, Zero)
             ELSE IF RLe(threshold, Zero) THEN TRUE
             ELSE IF dotProduct = Zero THEN FALSE
             ELSE RGe(RDiv(dotProduct, normA),
                      RMul(RMul(threshold, threshold),
                           RDiv(normB, dotProduct)))

\* calculateTF of every pool item's "title text".
ClusterTF ==
    Evaluated([item \in ClusterPool |-> calculateTF(CombinedText(item))])

\* The call calculateTF(text) of createTFIDFVectors.
termFrequencyOf(item) ==
    IF "tf" \in DOMAIN memo /\ item \in DOMAIN memo.tf
    THEN memo.tf[item]
    ELSE calculateTF(CombinedText(item))

createTFIDFVectors(items) ==
    LET documents ==
            Evaluated([i \in 1..Len(items) |-> termFrequencyOf(items[i])])
        idf == calculateIDF(documents)
        allTerms == SortedStrings(DOMAIN idf)
    IN  Evaluated([i \in 1..Len(items) |->
            [item |-> items[i],
             vector |-> Evaluated([k \in 1..Len(allTerms) |->
                            IF allTerms[k] \in DOMAIN documents[i]
                            THEN RMul(documents[i][allTerms[k]],
                                      idf[allTerms[k]])
                            ELSE Zero]),
             terms |-> allTerms]])

\* Object.entries(termScores).sort((a, b) => b[1] - a[1]).slice(0, n): the
\* terms enter termScores in the order of doc.terms, and the sort is stable.
getTopKeywords(vectors, n) ==
    LET terms == IF Len(vectors) = 0 THEN <<>> ELSE vectors[1].terms
        score(k) == SumRats([d \in 1..Len(vectors) |-> vectors[d].vector[k]],
                            1..Len(vectors))
        scores == Evaluated([k \in 1..Len(terms) |-> score(k)])
        before(k) == {l \in 1..Len(terms) :
                         \/ RGt(scores[l], scores[k])
                         \/ scores[l] = scores[k] /\ l < k}
        place == Evaluated([k \in 1..Len(terms) |-> Cardinality(before(k)) + 1])
    IN  Evaluated([r \in 1..MinInt(n, Len(terms)) |->
            terms[CHOOSE k \in 1..Len(terms) : place[k] = r]])

\* Positions i + 1 .. of vectors not yet assigned and similar to vectors[i].
SimilarAfter(vectors, similarityThreshold, i, assigned) ==
    {j \in (i + 1)..Len(vectors) :
        /\ j \notin assigned
        /\ cosineAtLeast(vectors[i].vector, vectors[j].vector,
                         similarityThreshold)}

RECURSIVE ClusterFromForgetful(_, _, _, _, _)
\* Forgets the members a seed has gathered: they stay open to later seeds.
ClusterFromForgetful(vectors, similarityThreshold, i, assigned, clusters) ==
    IF i > Len(vectors) THEN clusters
    ELSE LET similar == SimilarAfter(vectors, similarityThreshold, i, assigned)
             members == {i} \cup similar
             cluster == Evaluated([k \in 1..Cardinality(members) |->
                            vectors[KthSmallest(members, k)]])
         IN  ClusterFromForgetful(vectors, similarityThreshold, i + 1,
                                  assigned, Append(clusters, cluster))

RECURSIVE ClusterFrom(_, _, _, _, _)
\* The outer loop of clusterBySimilarity from position i on.
ClusterFrom(vectors, similarityThreshold, i, assigned, clusters) ==
    IF i > Len(vectors) THEN clusters
    ELSE IF i \in assigned
    THEN ClusterFrom(vectors, similarityThreshold, i + 1, assigned, clusters)
    ELSE LET similar == SimilarAfter(vectors, similarityThreshold, i, assigned)
             members == {i} \cup similar
             cluster == Evaluated([k \in 1..Cardinality(members) |->
                            vectors[KthSmallest(members, k)]])
         IN  ClusterFrom(vectors, similarityThreshold, i + 1,
                         assigned \cup members, Append(clusters, cluster))

clusterBySimilarity(vectors, similarityThreshold) ==
    ClusterFrom(vectors, similarityThreshold, 1, {}, <<>>)

RECURSIVE ClusterWeightFrom(_, _, _)
ClusterWeightFrom(items, now, i) ==
    IF i > Len(items) THEN Zero
    ELSE RAdd(itemWeight(items[i], now), ClusterWeightFrom(items, now, i + 1))

calculateClusterWeight(items, now) == ClusterWeightFrom(items, now, 1)

CLUSTERING_CONFIG ==
    [similarityThreshold |-> Rat(25, 100), maxTopics |-> 12,
     minClusterSize |-> 2, keywordsPerTopic |-> 5, receiptsPerTopic |-> 5]

\* Array.prototype.slice(0, n) for n >= 0.
SliceTo(seq, n) == SubSeq(seq, 1, MinInt(n, Len(seq)))

\* Takes the first max items as they come, without sorting.
itemsToReceiptsUnsorted(items, max) ==
    LET sorted == SliceTo(items, max)
    IN  [i \in 1..Len(sorted) |->
            [id |-> sorted[i].id, title |-> sorted[i].title,
             snippet |-> sorted[i].text, url |-> sorted[i].url,
             source |-> sorted[i].source,
             engagement |-> sorted[i].engagement,
             createdAt |-> sorted[i].createdAt]]

\* itemsToReceipts(items, max): the comparator is the one of the
\* deduplication sort (b.engagement - a.engagement).
itemsToReceipts(items, max) ==
    LET sorted == SliceTo(sortByEngagement(items), max)
    IN  [i \in 1..Len(sorted) |->
            [id |-> sorted[i].id, title |-> sorted[i].title,
             snippet |-> sorted[i].text, url |-> sorted[i].url,
             source |-> sorted[i].source,
             engagement |-> sorted[i].engagement,
             createdAt |-> sorted[i].createdAt]]

UpperChar(c) == IF IsLower(c) THEN Ch(UpperChars, IndexOf(c, LowerChars)) ELSE c

\* k.charAt(0).toUpperCase() + k.slice(1)
Capitalize(k) ==
    IF k = "" THEN "" ELSE UpperChar(Ch(k, 1)) \o SubSeq(k, 2, Len(k))

RECURSIVE Join(_, _)
\* Array.prototype.join(sep)
Join(seq, sep) ==
    IF Len(seq) = 0 THEN ""
    ELSE IF Len(seq) = 1 THEN seq[1]
    ELSE seq[1] \o sep \o Join(Tail(seq), sep)

generateKeywordTitle(keywords) ==
    LET top == SliceTo(keywords, 3)
    IN  Join([i \in 1..Len(top) |-> Capitalize(top[i])], " / ")

\* The first 16 hex digits of the SHA-256 of content: a value that content
\* determines, and that differs for the different contents of a run.
generateId(content) == [sha256 |-> content]

\* Lets every cluster through.
filterNothing(rawClusters, minClusterSize) == rawClusters

\* c.length >= minClusterSize
filterBySize(rawClusters, minClusterSize) ==
    SelectSeq(rawClusters, LAMBDA c : Len(c) >= minClusterSize)

\* Leaves the clusters in the order they were found.
sortByWeightNot(clusters) == clusters

\* clusters.sort((a, b) => b.weight - a.weight), a stable sort.
sortByWeight(clusters) ==
    LET before(k) == {l \in 1..Len(clusters) :
                         \/ RGt(clusters[l].weight, clusters[k].weight)
                         \/ clusters[l].weight = clusters[k].weight /\ l < k}
        place == Evaluated([k \in 1..Len(clusters) |->
                               Cardinality(before(k)) + 1])
    IN  Evaluated([r \in 1..Len(clusters) |->
            clusters[CHOOSE k \in 1..Len(clusters) : place[k] = r]])

\* cluster.map((v) => v.item)
ClusterItems(cluster) ==
    Evaluated([v \in 1..Len(cluster) |-> cluster[v].item])

\* The object the map callback of clusterIntoTopics makes of a cluster.
WeighedCluster(cluster, now) ==
    [items |-> ClusterItems(cluster),
     vectors |-> cluster,
     weight |-> calculateClusterWeight(ClusterItems(cluster), now),
     keywords |-> getTopKeywords(cluster, CLUSTERING_CONFIG.keywordsPerTopic),
     emotions |-> aggregateEmotions(ClusterItems(cluster), now)]

\* The Topic made of a weighed cluster.  The field items is the cluster the
\* topic was built from (cluster.items in the code, which the Topic object no
\* longer carries).
TopicOf(cluster) ==
    [id |-> generateId("topic:" \o Join(cluster.keywords, ":")),
     title |-> generateKeywordTitle(cluster.keywords),
     keywords |-> cluster.keywords,
     whyTrending |-> "Analyzing...",
     emotionMix |-> cluster.emotions,
     weight |-> cluster.weight,
     delta |-> 0,
     receipts |-> itemsToReceipts(cluster.items,
                                  CLUSTERING_CONFIG.receiptsPerTopic),
     items |-> cluster.items]

\* items.filter((item) => !item.duplicateOf)
withoutDuplicates(items) == SelectSeq(items, LAMBDA item : item.duplicateOf = "")

\* The clusters of clusterIntoTopics after filter, map, sort and slice.
TopClusters(uniqueItems, maxTopics, minClusterSize, now) ==
    LET vectors == createTFIDFVectors(uniqueItems)
        rawClusters ==
            clusterBySimilarity(vectors, CLUSTERING_CONFIG.similarityThreshold)
        kept == filterBySize(rawClusters, minClusterSize)
        weighed ==
            Evaluated([c \in 1..Len(kept) |-> WeighedCluster(kept[c], now)])
    IN  SliceTo(sortByWeight(weighed), maxTopics)

\* The Topic objects of a sequence of clusters.
TopicsOf(clusters) ==
    Evaluated([c \in 1..Len(clusters) |-> TopicOf(clusters[c])])

\* clusterIntoTopics(items, maxTopics, minClusterSize) when the clock shows
\* now.
clusterIntoTopics(items, maxTopics, minClusterSize, now) ==
    IF Len(withoutDuplicates(items)) = 0 THEN <<>>
    ELSE TopicsOf(TopClusters(withoutDuplicates(items), maxTopics,
                              minClusterSize, now))

-----------------------------------------------------------------------------
(* Runs of the clustering.                                                 *)

TopicLimits == {0, 1, 2}

ClusterSizes == {1, 2}

InitCluster ==
    /\ input \in
         {[fn |-> "clusterIntoTopics", items |-> its, maxTopics |-> mt,
           minClusterSize |-> mc, now |-> n] :
             its \in SeqsUpTo(ClusterPool, MaxItems),
             mt \in TopicLimits, mc \in ClusterSizes, n \in ClockSet}
    /\ output = NoValue
    /\ pc = "start"
    /\ memo = [emotions |-> PoolEmotions, tf |-> ClusterTF]
    /\ cachedKeywords = Null

Cluster ==
    /\ pc = "start"
    /\ input.fn = "clusterIntoTopics"
    /\ output' = clusterIntoTopics(input.items, input.maxTopics,
                                   input.minClusterSize, input.now)
    /\ pc' = "done"
    /\ UNCHANGED <<input, memo, cachedKeywords>>

NextCluster == Cluster

SpecCluster == InitCluster /\ [][NextCluster]_vars

\* C8: clusterIntoTopics([]) is []; for maxTopics >= 0 and minClusterSize
\* >= 1 it returns at most maxTopics topics, each built from a cluster of at
\* least minClusterSize member items.
C8_TopicBounds ==
    (pc = "done" /\ input.fn = "clusterIntoTopics")
    => /\ Len(input.items) = 0 => output = <<>>
       /\ Len(output) <= input.maxTopics
       /\ \A t \in 1..Len(output) :
            Len(output[t].items) >= input.minClusterSize

C8_Witness ==
    /\ pc = "done"
    /\ input.fn = "clusterIntoTopics"
    /\ input.minClusterSize = 2
    /\ input.maxTopics = 1
    /\ Len(input.items) = MaxItems
    /\ Len(output) = 1
    /\ Len(output[1].items) = 2

-----------------------------------------------------------------------------
(* The same call made twice.  Each call reads the clock (Date.now() in     *)
(* recencyWeight) at the moment it is made; the clock never goes back.     *)

InitRepeat ==
    /\ input \in
         {[fn |-> "clusterIntoTopics", items |-> its,
           maxTopics |-> CLUSTERING_CONFIG.maxTopics, minClusterSize |-> mc] :
             its \in SeqsUpTo(ClusterPool, MaxItems), mc \in ClusterSizes}
         \cup {[fn |-> "aggregateEmotions", items |-> its] :
                 its \in SeqsUpTo(MoodPool, MaxItems)}
    /\ output = <<>>
    /\ pc = "start"
    /\ memo = [emotions |-> PoolEmotions, tf |-> ClusterTF]
    /\ cachedKeywords = Null

\* The clock readings a call may see after the calls recorded in calls.
LaterClocks(calls) ==
    {now \in ClockSet : \A k \in 1..Len(calls) : calls[k].now <= now}

\* The position after one more call.
AfterCall(calls) == IF Len(calls) = 0 THEN "once" ELSE "done"

ClusterAgain ==
    /\ pc \in {"start", "once"}
    /\ input.fn = "clusterIntoTopics"
    /\ \E now \in LaterClocks(output) :
         output' = Append(output,
                     [now |-> now,
                      result |-> clusterIntoTopics(input.items, input.maxTopics,
                                                   input.minClusterSize, now)])
    /\ pc' = AfterCall(output)
    /\ UNCHANGED <<input, memo, cachedKeywords>>

AggregateAgain ==
    /\ pc \in {"start", "once"}
    /\ input.fn = "aggregateEmotions"
    /\ \E now \in LaterClocks(output) :
         output' = Append(output,
                     [now |-> now,
                      result |-> aggregateEmotions(input.items, now)])
    /\ pc' = AfterCall(output)
    /\ UNCHANGED <<input, memo, cachedKeywords>>

NextRepeat == ClusterAgain \/ AggregateAgain

SpecRepeat == InitRepeat /\ [][NextRepeat]_vars

\* C11 as stated: two calls on the same items and configuration (here of
\* clusterIntoTopics or aggregateEmotions) return the same output, whenever
\* the two calls are made.
C11_SameOutputs ==
    (pc = "done" /\ Len(output) = 2) => output[1].result = output[2].result

-----------------------------------------------------------------------------
(* Relevance scoring (src/lib/language.ts, sources in config.ts).          *)

SOURCES ==
    <<[name |-> "Search", type |-> "search", url |-> "", lens |-> "Headlines",
       trustScore |-> Rat(8, 10)]>>

\* SOURCES.find((s) => s.type === item.source)?.trustScore ?? 0.5
trustScoreOf(source) ==
    LET found == SelectSeq(SOURCES, LAMBDA s : s.type = source)
    IN  IF Len(found) = 0 THEN Rat(1, 2) ELSE found[1].trustScore

\* keywords.map(k => k.toLowerCase())
setRelevanceKeywords(keywords) ==
    [k \in 1..Len(keywords) |-> toLowerCase(keywords[k])]

\* cachedKeywords || []
getRelevanceKeywords ==
    IF cachedKeywords = Null THEN <<>> ELSE cachedKeywords.list

\* The positions of the cached keywords that combinedText includes.
RelevanceMatches(combinedText) ==
    {k \in 1..Len(getRelevanceKeywords) :
        includes(combinedText, getRelevanceKeywords[k])}

\* Adds the keyword share without capping it at 1.
scoreRelevanceUncapped(item) ==
    LET trustScore == trustScoreOf(item.source)
        combinedText == toLowerCase(CombinedText(item))
        keywordMatches == Cardinality(RelevanceMatches(combinedText))
        keywordScore == Rat(keywordMatches, 3)
        score == RAdd(RAdd(RMul(trustScore, Rat(3, 10)),
                           RMul(keywordScore, Rat(5, 10))),
                      IF item.source = "search" THEN Rat(1, 10) ELSE Zero)
    IN  RMin(One, RMax(Zero, score))

scoreRelevance(item) ==
    LET trustScore == trustScoreOf(item.source)
        combinedText == toLowerCase(CombinedText(item))
        keywordMatches == Cardinality(RelevanceMatches(combinedText))
        keywordScore == RMin(One, Rat(keywordMatches, 3))
        score == RAdd(RAdd(RMul(trustScore, Rat(3, 10)),
                           RMul(keywordScore, Rat(5, 10))),
                      IF item.source = "search" THEN Rat(1, 10) ELSE Zero)
    IN  RMin(One, RMax(Zero, score))

-----------------------------------------------------------------------------
(* Runs of the relevance scorer: the pipeline may set the keywords before  *)
(* it scores an item.                                                      *)

SourceTypes == {"search", "rss", "events"}

RelevanceTexts ==
    { <<"Breaking: Congress passes new bill",
        "United States lawmakers in Washington area">>,
      <<"Weather in Paris", "Sunny skies expected in France">>,
      <<"USA Congress Washington New York", "">>,
      <<"News story", "Content">>,
      <<"Life in New", "York today">> }

RelevancePool ==
    {[MoodItem("r", t[1], t[2], 10, 0, Undefined, "") EXCEPT !.source = s] :
        t \in RelevanceTexts, s \in SourceTypes}

KeywordConfigs ==
    { <<>>,
      <<"usa">>,
      <<"USA", "Congress", "washington", "New York">>,
      <<"usa", "united states", "congress", "washington", "new york",
        "breaking news">>,
      <<"Paris", "paris", "weather">> }

InitRelevance ==
    /\ input \in {[fn |-> "scoreRelevance", item |-> it, keywords |-> kw] :
                    it \in RelevancePool, kw \in KeywordConfigs}
    /\ output = NoValue
    /\ pc = "start"
    /\ memo = NoValue
    /\ cachedKeywords = Null

SetRelevanceKeywords ==
    /\ pc = "start"
    /\ input.fn = "scoreRelevance"
    /\ cachedKeywords' = [list |-> setRelevanceKeywords(input.keywords)]
    /\ UNCHANGED <<input, output, pc, memo>>

ScoreRelevance ==
    /\ pc = "start"
    /\ input.fn = "scoreRelevance"
    /\ output' = scoreRelevance(input.item)
    /\ pc' = "done"
    /\ UNCHANGED <<input, memo, cachedKeywords>>

NextRelevance == SetRelevanceKeywords \/ ScoreRelevance

SpecRelevance == InitRelevance /\ [][NextRelevance]_vars

\* The keywords configured at the moment of the call.
ConfiguredKeywords == IF cachedKeywords = Null THEN <<>> ELSE input.keywords

\* m: how many configured keywords occur in title + " " + text, letter case
\* set aside.
KeywordsOccurring(item) ==
    Cardinality({k \in 1..Len(ConfiguredKeywords) :
        Occurs(toLowerCase(ConfiguredKeywords[k]),
               toLowerCase(item.title \o " " \o item.text))})

\* The configured trust of a source type, 0.5 for a type not configured.
TrustOf(source) ==
    IF \E k \in 1..Len(SOURCES) : SOURCES[k].type = source
    THEN SOURCES[CHOOSE k \in 1..Len(SOURCES) : SOURCES[k].type = source]
             .trustScore
    ELSE Rat(1, 2)

\* trust * 0.3 + min(1, m / 3) * 0.5 + (0.1 for a search item), in [0, 1].
ExpectedRelevance(item) ==
    LET m == KeywordsOccurring(item)
        share == IF m >= 3 THEN One ELSE Rat(m, 3)
        sum == RAdd(RAdd(RMul(TrustOf(item.source), Rat(3, 10)),
                         RMul(share, Rat(1, 2))),
                    IF item.source = "search" THEN Rat(1, 10) ELSE Zero)
    IN  IF RLt(sum, Zero) THEN Zero ELSE IF RGt(sum, One) THEN One ELSE sum

\* C12: scoreRelevance lies in [0, 1] and is clamp(trust * 0.3 +
\* min(1, m / 3) * 0.5 + (0.1 if the source is search), 0, 1), trust being
\* the configured trust of the source type or 0.5, m the number of configured
\* keywords occurring case-insensitively in title + " " + text.
C12_RelevanceScore ==
    (pc = "done" /\ input.fn = "scoreRelevance")
    => /\ RLe(Zero, output) /\ RLe(output, One)
       /\ output = ExpectedRelevance(input.item)

C12_Witness ==
    /\ pc = "done"
    /\ input.fn = "scoreRelevance"
    /\ input.item.source = "search"
    /\ KeywordsOccurring(input.item) > 3
    /\ output = Rat(84, 100)

-----------------------------------------------------------------------------
(* Calls of clusterIntoTopics with minClusterSize out of range.  The       *)
(* function holds no throw statement and no check of its parameters, so    *)
(* the call is the action Cluster; a call that failed would leave          *)
(* pc = "threw".                                                           *)

MisuseSizes == {-1, 0, 1}

InitMisuse ==
    /\ input \in
         {[fn |-> "clusterIntoTopics", items |-> its,
           maxTopics |-> CLUSTERING_CONFIG.maxTopics, minClusterSize |-> mc,
           now |-> n] :
             its \in SeqsUpTo(ClusterPool, MaxItems), mc \in MisuseSizes,
             n \in ClockSet}
    /\ output = NoValue
    /\ pc = "start"
    /\ memo = [emotions |-> PoolEmotions, tf |-> ClusterTF]
    /\ cachedKeywords = Null

NextMisuse == Cluster

SpecMisuse == InitMisuse /\ [][NextMisuse]_vars

\* The configuration of the call is out of range.
IsMisuse == input.fn = "clusterIntoTopics" /\ input.minClusterSize < 1

\* C13 as stated: a call with a configuration out of range (here
\* minClusterSize < 1) fails with an error and returns no result.
C13_MisuseRejected ==
    (IsMisuse /\ pc # "start") => (pc = "threw" /\ output = NoValue)

-----------------------------------------------------------------------------
(* Loading a stored snapshot (snapshot.ts).                                *)
(* A parsed JSON value is a record tagged by type; JSON.parse is tabulated *)
(* on the texts the stored records of the runs hold.                       *)

JNull == [type |-> "null"]
JNum(n) == [type |-> "number", value |-> n]
JStr(s) == [type |-> "string", value |-> s]
JArr(items) == [type |-> "array", items |-> items]
JObj(fields) == [type |-> "object", fields |-> fields]

SyntaxError == [type |-> "SyntaxError"]

\* Stored emotions columns: a full distribution, and three damaged ones.
EmotionsText ==
    "{\"anger\":0.5,\"anxiety\":0,\"sadness\":0,\"resilience\":0,\"hope\":0.25,\"excitement\":0,\"cynicism\":0,\"neutral\":0.25}"
EmotionsTextWrongType == "{\"anger\":\"high\"}"
EmotionsTextNull == "null"
EmotionsTextCut == "{\"anger\":0.5,\"anx"

\* Stored topTopics columns.
TopTopicsTextEmpty == "[]"
TopTopicsText ==
    "[{\"keywords\":[\"rocket\",\"attack\",\"city\"],\"receiptIds\":[\"c1\"]}]"
TopTopicsTextWrongType == "[{\"keywords\":\"rocket\",\"receiptIds\":[]}]"
TopTopicsTextNoArray == "{\"keywords\":[]}"
TopTopicsTextCut == "[{\"keywords\":[\"rocket\""

\* Stored llmOutputs columns.
LLMOutputsTextEmpty == "{}"
LLMOutputsText == "{\"summary\":\"calm day\"}"
LLMOutputsTextWrongType == "{\"summary\":3}"
LLMOutputsTextCut == "{\"summary\":"

JSONParse(json) ==
    CASE json = EmotionsText ->
           JObj([e \in EmotionSet |->
                   JNum(IF e = "anger" THEN Rat(1, 2)
                        ELSE IF e \in {"hope", "neutral"} THEN Rat(1, 4)
                        ELSE Zero)])
      [] json = EmotionsTextWrongType -> JObj([anger |-> JStr("high")])
      [] json = EmotionsTextNull -> JNull
      [] json = TopTopicsTextEmpty -> JArr(<<>>)
      [] json = TopTopicsText ->
           JArr(<<JObj([keywords |->
                          JArr(<<JStr("rocket"), JStr("attack"), JStr("city")>>),
                        receiptIds |-> JArr(<<JStr("c1")>>)])>>)
      [] json = TopTopicsTextWrongType ->
           JArr(<<JObj([keywords |-> JStr("rocket"),
                        receiptIds |-> JArr(<<>>)])>>)
      [] json = TopTopicsTextNoArray -> JObj([keywords |-> JArr(<<>>)])
      [] json = LLMOutputsTextEmpty -> JObj(<<>>)
      [] json = LLMOutputsText -> JObj([summary |-> JStr("calm day")])
      [] json = LLMOutputsTextWrongType -> JObj([summary |-> JNum(RInt(3))])
      [] json \in {EmotionsTextCut, TopTopicsTextCut, LLMOutputsTextCut} ->
           SyntaxError

\* Array.isArray(v) && v.every(x => typeof x === 'string')
IsStringArray(v) ==
    /\ v.type = "array"
    /\ \A k \in 1..Len(v.items) : v.items[k].type = "string"

isValidEmotionDistribution(obj) ==
    /\ obj.type = "object"
    /\ \A e \in EmotionSet :
         e \in DOMAIN obj.fields /\ obj.fields[e].type = "number"

isValidTopTopics(arr) ==
    /\ arr.type = "array"
    /\ \A k \in 1..Len(arr.items) :
         /\ arr.items[k].type = "object"
         /\ "keywords" \in DOMAIN arr.items[k].fields
         /\ IsStringArray(arr.items[k].fields["keywords"])
         /\ "receiptIds" \in DOMAIN arr.items[k].fields
         /\ IsStringArray(arr.items[k].fields["receiptIds"])

isValidLLMOutputs(obj) ==
    /\ obj.type = "object"
    /\ \A key \in DOMAIN obj.fields : obj.fields[key].type = "string"

StringsOf(v) == [k \in 1..Len(v.items) |-> v.items[k].value]

\* A validated value as the EmotionDistribution it is.
AsEmotions(obj) == [e \in EmotionSet |-> obj.fields[e].value]

\* A validated value as the DailySnapshot['topTopics'] it is.
AsTopTopics(arr) ==
    [k \in 1..Len(arr.items) |->
        [keywords |-> StringsOf(arr.items[k].fields["keywords"]),
         receiptIds |-> StringsOf(arr.items[k].fields["receiptIds"])]]

\* A validated value as the Record<string, string> it is.
AsLLMOutputs(obj) == [key \in DOMAIN obj.fields |-> obj.fields[key].value]

\* safeJSONParse(json, isValidEmotionDistribution, createEmptyDistribution())
safeParseEmotions(json) ==
    LET parsed == JSONParse(json)
    IN  IF parsed = SyntaxError THEN createEmptyDistribution
        ELSE IF isValidEmotionDistribution(parsed) THEN AsEmotions(parsed)
        ELSE createEmptyDistribution

\* safeJSONParse(json, isValidTopTopics, [])
safeParseTopTopics(json) ==
    LET parsed == JSONParse(json)
    IN  IF parsed = SyntaxError THEN <<>>
        ELSE IF isValidTopTopics(parsed) THEN AsTopTopics(parsed)
        ELSE <<>>

\* safeJSONParse(json, isValidLLMOutputs, {})
safeParseLLMOutputs(json) ==
    LET parsed == JSONParse(json)
    IN  IF parsed = SyntaxError THEN <<>>
        ELSE IF isValidLLMOutputs(parsed) THEN AsLLMOutputs(parsed)
        ELSE <<>>

\* loadSnapshot(date), row being what prisma.snapshot.findUnique returned.
loadSnapshot(row) ==
    IF row = Null THEN Null
    ELSE [date |-> row.date,
          tensionIndex |-> row.tensionIndex,
          emotions |-> safeParseEmotions(row.emotions),
          topTopics |-> safeParseTopTopics(row.topTopics),
          llmOutputs |-> safeParseLLMOutputs(row.llmOutputs)]

-----------------------------------------------------------------------------
(* Runs of the delta engine on a stored row: the pipeline loads            *)
(* yesterday's snapshot and then applies the topic deltas.                 *)

SoundEmotionsTexts == {EmotionsText}
DamagedEmotionsTexts ==
    {EmotionsTextWrongType, EmotionsTextNull, EmotionsTextCut}

SoundTopTopicsTexts == {TopTopicsTextEmpty, TopTopicsText}
DamagedTopTopicsTexts ==
    {TopTopicsTextWrongType, TopTopicsTextNoArray, TopTopicsTextCut}

SoundLLMOutputsTexts == {LLMOutputsTextEmpty, LLMOutputsText}
DamagedLLMOutputsTexts == {LLMOutputsTextWrongType, LLMOutputsTextCut}

\* The rows the snapshot table may hold for yesterday.
StoredRows ==
    {[date |-> "yesterday", tensionIndex |-> 40, emotions |-> e,
      topTopics |-> t, llmOutputs |-> l] :
        e \in SoundEmotionsTexts \cup DamagedEmotionsTexts,
        t \in SoundTopTopicsTexts \cup DamagedTopTopicsTexts,
        l \in SoundLLMOutputsTexts \cup DamagedLLMOutputsTexts}

InitLoad ==
    /\ input \in {[fn |-> "loadSnapshot", row |-> r, topics |-> ts] :
                    r \in {Null} \cup StoredRows,
                    ts \in {<<TodayTopic(k)>> :
                              k \in {<<"rocket", "attack", "city">>,
                                     <<"market", "rally">>}}}
    /\ output = NoValue
    /\ pc = "start"
    /\ memo = NoValue
    /\ cachedKeywords = Null

LoadSnapshot ==
    /\ pc = "start"
    /\ input.fn = "loadSnapshot"
    /\ output' = [snapshot |-> loadSnapshot(input.row)]
    /\ pc' = "loaded"
    /\ UNCHANGED <<input, memo, cachedKeywords>>

ApplyLoadedDeltas ==
    /\ pc = "loaded"
    /\ input.fn = "loadSnapshot"
    /\ output' = [snapshot |-> output.snapshot,
                  topics |-> applyTopicDeltas(input.topics, output.snapshot)]
    /\ pc' = "done"
    /\ UNCHANGED <<input, memo, cachedKeywords>>

NextLoad == LoadSnapshot \/ ApplyLoadedDeltas

SpecLoad == InitLoad /\ [][NextLoad]_vars

\* The stored row has a field that does not parse or is of the wrong shape.
IsDamaged(row) ==
    /\ row # Null
    /\ \/ row.emotions \in DamagedEmotionsTexts
       \/ row.topTopics \in DamagedTopTopicsTexts
       \/ row.llmOutputs \in DamagedLLMOutputsTexts

\* C14 as stated: loadSnapshot returns null for a row with a damaged
\* emotions, topTopics or llmOutputs field, and the topic deltas of that day
\* are then all 0.
C14_DamagedIsNull ==
    (input.fn = "loadSnapshot" /\ IsDamaged(input.row))
    => /\ pc \in {"loaded", "done"} => output.snapshot = Null
       /\ pc = "done"
          => \A k \in 1..Len(output.topics) : output.topics[k].delta = 0

-----------------------------------------------------------------------------
(* Creating a snapshot (snapshot.ts).                                      *)

SnapshotTopicLimit == 10

\* Stores every topic, however many there are.
createSnapshotAll(date, tensionIndex, emotions, topics, llmOutputs) ==
    [date |-> date,
     tensionIndex |-> tensionIndex,
     emotions |-> emotions,
     topTopics |->
        [k \in 1..Len(topics) |->
            [keywords |-> topics[k].keywords,
             receiptIds |-> [r \in 1..Len(topics[k].receipts) |->
                                topics[k].receipts[r].id]]],
     llmOutputs |-> llmOutputs]

createSnapshot(date, tensionIndex, emotions, topics, llmOutputs) ==
    [date |-> date,
     tensionIndex |-> tensionIndex,
     emotions |-> emotions,
     topTopics |->
        LET top == SliceTo(topics, SnapshotTopicLimit)
        IN  [k \in 1..Len(top) |->
                [keywords |-> top[k].keywords,
                 receiptIds |-> [r \in 1..Len(top[k].receipts) |->
                                    top[k].receipts[r].id]]],
     llmOutputs |-> llmOutputs]

-----------------------------------------------------------------------------
(* Runs of createSnapshot.                                                 *)

MaxTopicCount == 12

\* A topic with the receipts of the given ids.
TopicWithReceipts(id, keywords, receiptIds) ==
    [id |-> id, title |-> "Test Topic", keywords |-> keywords,
     whyTrending |-> "Testing", weight |-> One, delta |-> 0,
     receipts |-> [r \in 1..Len(receiptIds) |->
                     [id |-> receiptIds[r], title |-> "Test", snippet |-> "",
                      url |-> "", source |-> "search", engagement |-> 0]]]

TodayTopics ==
    <<TopicWithReceipts("t1", <<"rocket", "attack", "city">>, <<"c1", "c2">>),
      TopicWithReceipts("t2", <<"market", "rally">>, <<"c3">>),
      TopicWithReceipts("t3", <<>>, <<>>),
      TopicWithReceipts("t4", <<"rocket">>, <<"c2", "c1", "c5">>)>>

\* n topics, taken in turn from TodayTopics starting after position first.
TopicList(n, first) ==
    [k \in 1..n |-> TodayTopics[((k + first) % Len(TodayTopics)) + 1]]

InitSnapshot ==
    /\ input \in
         {[fn |-> "createSnapshot", date |-> "today", tensionIndex |-> t,
           emotions |-> e, topics |-> TopicList(n, first), llmOutputs |-> l] :
             t \in TensionSet,
             e \in {NeutralDistribution, AsEmotions(JSONParse(EmotionsText))},
             n \in 0..MaxTopicCount,
             first \in 0..(Len(TodayTopics) - 1),
             l \in {<<>>, [summary |-> "calm day"]}}
    /\ output = NoValue
    /\ pc = "start"
    /\ memo = NoValue
    /\ cachedKeywords = Null

CreateSnapshot ==
    /\ pc = "start"
    /\ input.fn = "createSnapshot"
    /\ output' = createSnapshot(input.date, input.tensionIndex, input.emotions,
                                input.topics, input.llmOutputs)
    /\ pc' = "done"
    /\ UNCHANGED <<input, memo, cachedKeywords>>

NextSnapshot == CreateSnapshot

SpecSnapshot == InitSnapshot /\ [][NextSnapshot]_vars

\* The ids of a topic's receipts, in the order of the receipts.
ReceiptIds(topic) ==
    [r \in 1..Len(topic.receipts) |-> topic.receipts[r].id]

\* C15: createSnapshot keeps the first min(10, len(topics)) topics in the
\* caller's order, stores for each exactly its keywords and the ids of its
\* receipts, and carries date, tensionIndex, emotions and llmOutputs over.
C15_SnapshotContent ==
    (pc = "done" /\ input.fn = "createSnapshot")
    => /\ Len(output.topTopics)
            = IF Len(input.topics) < 10 THEN Len(input.topics) ELSE 10
       /\ \A k \in 1..Len(output.topTopics) :
            /\ DOMAIN output.topTopics[k] = {"keywords", "receiptIds"}
            /\ output.topTopics[k].keywords = input.topics[k].keywords
            /\ output.topTopics[k].receiptIds = ReceiptIds(input.topics[k])
       /\ output.date = input.date
       /\ output.tensionIndex = input.tensionIndex
       /\ output.emotions = input.emotions
       /\ output.llmOutputs = input.llmOutputs

C15_Witness ==
    /\ pc = "done"
    /\ input.fn = "createSnapshot"
    /\ Len(input.topics) > 10
    /\ Len(output.topTopics) = 10
    /\ output.topTopics[10].receiptIds = <<"c2", "c1", "c5">>

-----------------------------------------------------------------------------
(* Emotion deltas (getEmotionDeltas in snapshot.ts, calculateEmotionDeltas *)
(* in mood.ts).                                                            *)

\* v || 0
OrZero(v) == IF v = Undefined \/ v = Zero THEN Zero ELSE v

\* Subtracts today's value from yesterday's.
getEmotionDeltasReversed(current, yesterday) ==
    IF yesterday = Null THEN createEmptyDistribution
    ELSE [e \in EmotionSet |->
            RSub(OrZero(yesterday.emotions[e]), current[e])]

getEmotionDeltas(current, yesterday) ==
    IF yesterday = Null THEN createEmptyDistribution
    ELSE [e \in EmotionSet |->
            RSub(current[e], OrZero(yesterday.emotions[e]))]

\* yesterday is a distribution or Null.
calculateEmotionDeltas(current, yesterday) ==
    [k \in 1..Len(EMOTIONS) |->
        [emotion |-> EMOTIONS[k],
         value |-> current[EMOTIONS[k]],
         delta |-> IF yesterday # Null
                   THEN RSub(current[EMOTIONS[k]], yesterday[EMOTIONS[k]])
                   ELSE Zero]]

\* yesterdaySnapshot?.emotions || null
emotionsOrNull(yesterdaySnapshot) ==
    IF yesterdaySnapshot = Null THEN Null ELSE yesterdaySnapshot.emotions

-----------------------------------------------------------------------------
(* Runs of the two delta functions on the same distribution and snapshot,  *)
(* called in either order.                                                 *)

YesterdayEmotions ==
    {NeutralDistribution,
     AsEmotions(JSONParse(EmotionsText)),
     [e \in EmotionSet |-> Rat(1, 8)]}

EmotionSnapshots ==
    {Null} \cup {[date |-> "yesterday", tensionIndex |-> 40, emotions |-> e,
                  topTopics |-> <<>>, llmOutputs |-> <<>>] :
                    e \in YesterdayEmotions}

InitEmotionDelta ==
    /\ input \in {[fn |-> "emotionDeltas", current |-> c, snapshot |-> s] :
                    c \in UnitDistributions, s \in EmotionSnapshots}
    /\ output = <<>>
    /\ pc = "start"
    /\ memo = NoValue
    /\ cachedKeywords = Null

\* The position after one more of the two calls.
AfterDelta == IF pc = "start" THEN "once" ELSE "done"

GetEmotionDeltas ==
    /\ pc \in {"start", "once"}
    /\ input.fn = "emotionDeltas"
    /\ "getEmotionDeltas" \notin DOMAIN output
    /\ output' = output @@
         [getEmotionDeltas |-> getEmotionDeltas(input.current, input.snapshot)]
    /\ pc' = AfterDelta
    /\ UNCHANGED <<input, memo, cachedKeywords>>

CalculateEmotionDeltas ==
    /\ pc \in {"start", "once"}
    /\ input.fn = "emotionDeltas"
    /\ "calculateEmotionDeltas" \notin DOMAIN output
    /\ output' = output @@
         [calculateEmotionDeltas |->
            calculateEmotionDeltas(input.current,
                                   emotionsOrNull(input.snapshot))]
    /\ pc' = AfterDelta
    /\ UNCHANGED <<input, memo, cachedKeywords>>

NextEmotionDelta == GetEmotionDeltas \/ CalculateEmotionDeltas

SpecEmotionDelta == InitEmotionDelta /\ [][NextEmotionDelta]_vars

\* current minus yesterday's value of the category, 0 without a snapshot.
ExpectedEmotionDelta(e) ==
    IF input.snapshot = Null THEN Zero
    ELSE RSub(input.current[e], input.snapshot.emotions[e])

\* C16: without a snapshot every category's delta is 0, with one it is the
\* current value minus yesterday's; calculateEmotionDeltas and
\* getEmotionDeltas give the same delta for every category.
C16_EmotionDeltas ==
    input.fn = "emotionDeltas"
    => /\ "getEmotionDeltas" \in DOMAIN output
          => \A e \in EmotionSet :
               output.getEmotionDeltas[e] = ExpectedEmotionDelta(e)
       /\ "calculateEmotionDeltas" \in DOMAIN output
          => /\ Len(output.calculateEmotionDeltas) = Len(EMOTIONS)
             /\ \A k \in 1..Len(EMOTIONS) :
                  /\ output.calculateEmotionDeltas[k].emotion = EMOTIONS[k]
                  /\ output.calculateEmotionDeltas[k].delta
                       = ExpectedEmotionDelta(EMOTIONS[k])
       /\ pc = "done"
          => \A k \in 1..Len(EMOTIONS) :
               output.calculateEmotionDeltas[k].delta
                 = output.getEmotionDeltas[EMOTIONS[k]]

C16_Witness ==
    /\ pc = "done"
    /\ input.fn = "emotionDeltas"
    /\ input.snapshot # Null
    /\ RGt(output.getEmotionDeltas["anger"], Zero)
    /\ RLt(output.getEmotionDeltas["neutral"], Zero)
    /\ output.calculateEmotionDeltas[1].delta = output.getEmotionDeltas["anger"]

-----------------------------------------------------------------------------
(* Runs of the greedy clustering: the first steps of clusterIntoTopics, up *)
(* to the raw clusters.                                                    *)

\* An item close to the rocket stories and to the market stories alike.
BridgeItem ==
    MoodItem("c7", "Rocket attack markets rally", "", 8, 1, One, "")

GreedyPool == (ClusterPool \ {c \in ClusterPool : c.id = "c4"}) \cup {BridgeItem}

GreedyTF ==
    Evaluated([item \in GreedyPool |-> calculateTF(CombinedText(item))])

\* rawClusters of clusterIntoTopics.
rawClustersOf(items) ==
    clusterBySimilarity(createTFIDFVectors(withoutDuplicates(items)),
                        CLUSTERING_CONFIG.similarityThreshold)

InitGreedy ==
    /\ input \in {[fn |-> "clusterBySimilarity", items |-> its] :
                    its \in SeqsUpTo(GreedyPool, MaxItems)}
    /\ output = NoValue
    /\ pc = "start"
    /\ memo = [tf |-> GreedyTF]
    /\ cachedKeywords = Null

RawClusters ==
    /\ pc = "start"
    /\ input.fn = "clusterBySimilarity"
    /\ output' = rawClustersOf(input.items)
    /\ pc' = "done"
    /\ UNCHANGED <<input, memo, cachedKeywords>>

NextGreedy == RawClusters

SpecGreedy == InitGreedy /\ [][NextGreedy]_vars

\* The vectors of the items that carry no duplicateOf, in input order.
UniqueVectors == createTFIDFVectors(withoutDuplicates(input.items))

\* Vectors i and j are similar enough to share a cluster.
Close(vectors, i, j) ==
    cosineAtLeast(vectors[i].vector, vectors[j].vector,
                  CLUSTERING_CONFIG.similarityThreshold)

\* Close, for every pair of positions.
CloseTable(vectors) ==
    Evaluated([p \in (1..Len(vectors)) \X (1..Len(vectors)) |->
                  Close(vectors, p[1], p[2])])

RECURSIVE SeedsUpTo(_, _)
\* The seeds among positions 1..n: a position no earlier seed claims.
SeedsUpTo(close, n) ==
    IF n = 0 THEN {}
    ELSE LET earlier == SeedsUpTo(close, n - 1)
         IN  IF \E i \in earlier : close[<<i, n>>] THEN earlier
             ELSE earlier \cup {n}

\* The positions seed i gathers: itself and every later position of which it
\* is the earliest close seed.
Gathered(close, seeds, last, i) ==
    {i} \cup {j \in (i + 1)..last :
                /\ j \notin seeds
                /\ close[<<i, j>>]
                /\ \A h \in seeds : (h < j /\ close[<<h, j>>]) => i <= h}

\* How many members of the clusters hold item x.
TimesClustered(x) ==
    Cardinality({p \in {<<c, m>> : c \in 1..Len(output),
                                        m \in 1..Len(input.items)} :
                   p[2] <= Len(output[p[1]]) /\ output[p[1]][p[2]].item = x})

\* The clusters are those of the seeds, each with what it gathers, in order.
ClustersOfSeeds(vectors) ==
    LET close == CloseTable(vectors)
        seeds == SeedsUpTo(close, Len(vectors))
    IN  /\ Len(output) = Cardinality(seeds)
        /\ \A k \in 1..Len(output) :
             LET members == Gathered(close, seeds, Len(vectors),
                                     KthSmallest(seeds, k))
             IN  /\ Len(output[k]) = Cardinality(members)
                 /\ \A m \in 1..Len(output[k]) :
                      output[k][m] = vectors[KthSmallest(members, m)]

\* C17: every item without duplicateOf is in exactly one cluster and items
\* with duplicateOf in none; in input order an item is a seed iff no earlier
\* seed claimed it, and item j is in the cluster of seed i < j iff i is the
\* earliest seed whose vector is close (cosine >= similarityThreshold) to j's.
C17_GreedyClusters ==
    (pc = "done" /\ input.fn = "clusterBySimilarity")
    => /\ \A x \in Range(input.items) :
            TimesClustered(x)
              = IF x.duplicateOf # "" THEN 0 ELSE Count(input.items, x)
       /\ ClustersOfSeeds(UniqueVectors)

C17_Witness ==
    /\ pc = "done"
    /\ input.fn = "clusterBySimilarity"
    /\ Len(input.items) = 3
    /\ input.items[1].id = "c3"
    /\ input.items[2].id = "c1"
    /\ input.items[3].id = "c7"
    /\ Len(output) = 2
    /\ Len(output[1]) = 2
    /\ output[1][2].item.id = "c7"
    /\ Close(UniqueVectors, 1, 3)
    /\ Close(UniqueVectors, 2, 3)

-----------------------------------------------------------------------------
(* Properties of the topics clusterIntoTopics returns.                     *)

ClusterDone == pc = "done" /\ input.fn = "clusterIntoTopics"

\* The member items of the raw clusters with at least minClusterSize members.
KeptClusters ==
    LET kept == filterBySize(rawClustersOf(input.items), input.minClusterSize)
    IN  [c \in 1..Len(kept) |-> ClusterItems(kept[c])]

\* How many topics were built from a cluster of the given member items.
TimesReturned(members) ==
    Cardinality({t \in 1..Len(output) : output[t].items = members})

\* How many of the clusters kept have the given member items.
TimesKept(kept, members) ==
    Cardinality({c \in 1..Len(kept) : kept[c] = members})

\* The topics are in non-increasing order of weight and no cluster of kept
\* that was left out weighs more than a topic.
HeaviestOf(kept) ==
    /\ \A t \in 1..Len(output) - 1 :
         RGe(output[t].weight, output[t + 1].weight)
    /\ \A c \in 1..Len(kept) :
         TimesReturned(kept[c]) < TimesKept(kept, kept[c])
         => \A t \in 1..Len(output) :
              RLe(calculateClusterWeight(kept[c], input.now),
                  output[t].weight)

\* C18: the topics come in non-increasing order of weight, and a cluster of
\* at least minClusterSize members that is not returned weighs no more than
\* any returned topic.
C18_HeaviestFirst == ClusterDone => HeaviestOf(KeptClusters)

\* Three clusters of kept, two topics, the lightest cluster left out.
LightestLeftOut(kept) ==
    /\ Len(kept) = 3
    /\ Len(output) = 2
    /\ RGt(output[1].weight, output[2].weight)
    /\ output[1].items # kept[1]
    /\ \E c \in 1..3 :
         /\ TimesReturned(kept[c]) = 0
         /\ RLt(calculateClusterWeight(kept[c], input.now),
                output[2].weight)

C18_Witness == ClusterDone /\ LightestLeftOut(KeptClusters)

-----------------------------------------------------------------------------
(* Runs of clusterIntoTopics on stories told many times over, so that a    *)
(* cluster has more members than a topic has receipts.                     *)

MaxClusterItems == 7

\* One story as seven sources carry it, with the engagement of each.
StoryItems ==
    <<MoodItem("r1", "Rocket attack on Tel Aviv", "", 98, 2, One, ""),
      MoodItem("r2", "Rocket attack on Tel Aviv", "", 5000, 1, One, ""),
      MoodItem("r3", "Rocket attack on Tel Aviv", "", 0, 2, One, ""),
      MoodItem("r4", "Rocket attack on Tel Aviv", "", 998, 0, One, ""),
      MoodItem("r5", "Rocket attack on Tel Aviv", "", 98, 1, One, ""),
      MoodItem("r6", "Rocket attack on Tel Aviv", "", 2000, 2, One, ""),
      MoodItem("r7", "Rocket attack on Tel Aviv", "", 8, 0, One, ""),
      MoodItem("r8", "Rocket attack on Tel Aviv", "", 998, 1, One, "")>>

\* n of the items, taken in turn starting after position first.
StoryList(n, first) ==
    [k \in 1..n |-> StoryItems[((k + first) % Len(StoryItems)) + 1]]

StoryTF ==
    Evaluated([item \in Range(StoryItems) |-> calculateTF(CombinedText(item))])

StoryEmotions ==
    Evaluated([item \in Range(StoryItems) |-> scoreItemEmotions(item)])

InitStory ==
    /\ input \in
         {[fn |-> "clusterIntoTopics", items |-> StoryList(n, first),
           maxTopics |-> CLUSTERING_CONFIG.maxTopics, minClusterSize |-> mc,
           now |-> t] :
             n \in 0..MaxClusterItems, first \in 0..(Len(StoryItems) - 1),
             mc \in ClusterSizes, t \in ClockSet}
    /\ output = NoValue
    /\ pc = "start"
    /\ memo = [emotions |-> StoryEmotions, tf |-> StoryTF]
    /\ cachedKeywords = Null

NextStory == Cluster

SpecStory == InitStory /\ [][NextStory]_vars

\* The receipt made of an item.
IsReceiptOf(receipt, item) ==
    /\ receipt.id = item.id
    /\ receipt.title = item.title
    /\ receipt.url = item.url
    /\ receipt.engagement = item.engagement

\* The receipts of a topic are the min(receiptsPerTopic, size) most engaged
\* members of its cluster, most engaged first.
TopReceipts(topic) ==
    LET members == topic.items
        receipts == topic.receipts
        shown(m) == \E r \in 1..Len(receipts) :
                       IsReceiptOf(receipts[r], members[m])
    IN  /\ Len(receipts)
             = IF Len(members) < CLUSTERING_CONFIG.receiptsPerTopic
               THEN Len(members) ELSE CLUSTERING_CONFIG.receiptsPerTopic
        /\ \A r \in 1..Len(receipts) :
             \E m \in 1..Len(members) : IsReceiptOf(receipts[r], members[m])
        /\ \A r, q \in 1..Len(receipts) :
             r # q => receipts[r].id # receipts[q].id
        /\ \A r \in 1..Len(receipts) - 1 :
             receipts[r].engagement >= receipts[r + 1].engagement
        /\ \A m \in 1..Len(members) :
             ~shown(m) => \A r \in 1..Len(receipts) :
                             members[m].engagement <= receipts[r].engagement

\* C19: each topic has min(receiptsPerTopic, cluster size) receipts, each a
\* member of its cluster, in non-increasing engagement order, and no member
\* left out is more engaged than a receipt.
C19_TopReceipts ==
    ClusterDone => \A t \in 1..Len(output) : TopReceipts(output[t])

C19_Witness ==
    /\ ClusterDone
    /\ Len(output) = 1
    /\ Len(output[1].items) = 7
    /\ Len(output[1].receipts) = 5
    /\ output[1].items[1].id = "r3"
    /\ output[1].receipts[1].id = "r6"
    /\ output[1].receipts[5].engagement = 98


NoRepeats(seq) == \A i, j \in 1..Len(seq) : i # j => seq[i] # seq[j]

\* C20: every topic returned by clusterIntoTopics has exactly
\* keywordsPerTopic (5) keywords, none of them repeated.
C20_FiveKeywords ==
    ClusterDone =>
        \A t \in 1..Len(output) :
            /\ Len(output[t].keywords) = CLUSTERING_CONFIG.keywordsPerTopic
            /\ NoRepeats(output[t].keywords)


\* The terms of the title and text of an item.
TermsOf(item) == DOMAIN termFrequencyOf(item)

\* C21: every keyword of a returned topic is a term of the title or text of
\* at least one member item of the topic's cluster.
C21_KeywordsFromMembers ==
    ClusterDone =>
        \A t \in 1..Len(output) :
            \A k \in 1..Len(output[t].keywords) :
                \E m \in 1..Len(output[t].items) :
                    output[t].keywords[k] \in TermsOf(output[t].items[m])


-----------------------------------------------------------------------------
(* Marked duplicates in the aggregation (SpecMood).                        *)

AggregateDone == pc = "done" /\ input.fn = "aggregateEmotions"

\* C22: aggregateEmotions(items) equals aggregateEmotions of the items
\* without duplicateOf, so marked duplicates never change the result.
C22_DuplicatesIgnored ==
    AggregateDone =>
        output = aggregateEmotions(withoutDuplicates(input.items), input.now)

C22_Witness ==
    /\ AggregateDone
    /\ Len(input.items) = 3
    /\ input.items[1].id = "m6"
    /\ input.items[2].id = "m2"
    /\ input.items[3].id = "m6"
    /\ output # NeutralDistribution
    /\ output.anxiety = Zero
    /\ scoreItemEmotions(input.items[1]).anxiety # Zero


-----------------------------------------------------------------------------
(* The similarity threshold of deduplicateItems (SpecThreshold): one list   *)
(* deduplicated at two thresholds, as the test "should respect similarity   *)
(* threshold" does.                                                         *)

MaxThresholdItems == 4

ThresholdPool ==
    { Item("t1", "Village homes and storm", "", "", 90, ""),
      Item("t2", "Storm floods valley farms and homes near mountain village",
           "", "", 70, ""),
      Item("t3", "Storm floods valley farms", "", "", 50, ""),
      Item("t4", "near mountain village", "", "", 30, ""),
      Item("t5", "Quiet day in the north", "", "https://example.com/q", 30, "") }

\* calculateSimilarity on every pair of items of the pool.
ThresholdSimilarity ==
    Evaluated([p \in ThresholdPool \X ThresholdPool |->
                  calculateSimilarity(p[1], p[2])])

InitThreshold ==
    /\ input \in {[fn |-> "respectThreshold", items |-> its,
                   low |-> t[1], high |-> t[2]] :
                    its \in SeqsUpTo(ThresholdPool, MaxThresholdItems),
                    t \in {p \in ThresholdSet \X ThresholdSet :
                              RLe(p[1], p[2])}}
    /\ output = [dedupedHigh |-> <<>>, dedupedLow |-> <<>>]
    /\ pc = "start"
    /\ memo = [similarity |-> ThresholdSimilarity]
    /\ cachedKeywords = Null

\* dedupedHigh = deduplicateItems(items, high), and then
\* dedupedLow = deduplicateItems(items, low): one call per step.
RespectThreshold ==
    /\ pc \in {"start", "high"}
    /\ input.fn = "respectThreshold"
    /\ output' = [output EXCEPT
                     ![IF pc = "start" THEN "dedupedHigh" ELSE "dedupedLow"] =
                         deduplicateItems(input.items,
                             IF pc = "start" THEN input.high ELSE input.low)]
    /\ pc' = IF pc = "start" THEN "high" ELSE "done"
    /\ UNCHANGED <<input, memo, cachedKeywords>>

NextThreshold == RespectThreshold

SpecThreshold == InitThreshold /\ [][NextThreshold]_vars

ThresholdDone == pc = "done" /\ input.fn = "respectThreshold"

\* C23 as stated: for thresholds low <= high, deduplicateItems(items, high)
\* keeps at least as many items as deduplicateItems(items, low).
C23_ThresholdMonotone ==
    ThresholdDone => Len(output.dedupedHigh) >= Len(output.dedupedLow)


-----------------------------------------------------------------------------
(* Two scoring runs in one process (SpecRuns).  A run calls                 *)
(* setRelevanceKeywords with its keyword list and then scoreRelevance on    *)
(* each of its items; both functions are synchronous, so a call is one      *)
(* step, and the calls of the two runs interleave in any order.  The two    *)
(* runs share the module variable cachedKeywords.                           *)

MaxRunItems == 2

RunIds == {1, 2}

RunKeywords ==
    { <<"usa">>,
      <<"USA", "Congress", "washington", "New York">>,
      <<"Paris", "paris", "weather">> }

RunPool ==
    {MoodItem("r", t[1], t[2], 10, 0, Undefined, "") :
        t \in { <<"Breaking: Congress passes new bill",
                  "United States lawmakers in Washington area">>,
                <<"Weather in Paris", "Sunny skies expected in France">>,
                <<"News story", "Content">> }}

\* The item lists of a run: at least one item.
RunItemLists == SeqsUpTo(RunPool, MaxRunItems) \ {<<>>}

InitRuns ==
    /\ input \in {[fn |-> "runs",
                   runs |-> <<[keywords |-> k[1], items |-> its[1]],
                              [keywords |-> k[2], items |-> its[2]]>>] :
                    k \in RunKeywords \X RunKeywords,
                    its \in RunItemLists \X RunItemLists}
    /\ output = <<<<>>, <<>>>>
    /\ pc = <<"start", "start">>
    /\ memo = NoValue
    /\ cachedKeywords = Null

\* Run r calls setRelevanceKeywords(K).
RunSetKeywords(r) ==
    /\ input.fn = "runs"
    /\ pc[r] = "start"
    /\ cachedKeywords' = [list |-> setRelevanceKeywords(input.runs[r].keywords)]
    /\ pc' = [pc EXCEPT ![r] = "scoring"]
    /\ UNCHANGED <<input, output, memo>>

\* Run r calls scoreRelevance on its next item.
RunScoreItem(r) ==
    /\ input.fn = "runs"
    /\ pc[r] = "scoring"
    /\ LET items == input.runs[r].items
           next == Len(output[r]) + 1
       IN  /\ output' = [output EXCEPT
                            ![r] = Append(@, scoreRelevance(items[next]))]
           /\ pc' = [pc EXCEPT
                        ![r] = IF next = Len(items) THEN "done" ELSE "scoring"]
    /\ UNCHANGED <<input, memo, cachedKeywords>>

NextRuns == \E r \in RunIds : RunSetKeywords(r) \/ RunScoreItem(r)

SpecRuns == InitRuns /\ [][NextRuns]_vars

\* The score of item under the keyword list K: trust * 0.3 +
\* min(1, m / 3) * 0.5 + (0.1 for a search item), clamped to [0, 1], m
\* being the number of keywords of K that occur in the item.
ScoreUnder(item, K) ==
    LET m == Cardinality({k \in 1..Len(K) :
                 Occurs(toLowerCase(K[k]),
                        toLowerCase(item.title \o " " \o item.text))})
        share == IF m >= 3 THEN One ELSE Rat(m, 3)
        sum == RAdd(RAdd(RMul(TrustOf(item.source), Rat(3, 10)),
                         RMul(share, Rat(1, 2))),
                    IF item.source = "search" THEN Rat(1, 10) ELSE Zero)
    IN  IF RLt(sum, Zero) THEN Zero ELSE IF RGt(sum, One) THEN One ELSE sum

\* C24 as stated: every score a run has computed is the score of that item
\* under the keyword list the run supplied, however the steps of the two
\* runs interleave.
C24_OwnKeywords ==
    input.fn = "runs"
    => \A r \in RunIds : \A k \in 1..Len(output[r]) :
           output[r][k] = ScoreUnder(input.runs[r].items[k],
                                     input.runs[r].keywords)


-----------------------------------------------------------------------------
(* Calls of calculateSimilarity on one pair of items (SpecSimilarity).      *)

SameStoryPool ==
    { Item("s1", "Storm warning", "Biden met Netanyahu in Jerusalem",
           "https://news.org/s1", 40, ""),
      Item("s2", "Talks resume", "Netanyahu met Biden in Jerusalem",
           "https://other.net/s2", 40, ""),
      Item("s3", "Biden Netanyahu Jerusalem talks", "",
           "https://news.org/s3", 40, ""),
      Item("s4", "Biden Netanyahu Jerusalem summit", "",
           "https://other.net/s4", 40, "") }

SimilarityPool == DedupPool \cup SameStoryPool

InitSimilarity ==
    /\ input \in {[fn |-> "calculateSimilarity", a |-> p[1], b |-> p[2]] :
                    p \in SimilarityPool \X SimilarityPool}
    /\ output = NoValue
    /\ pc = "start"
    /\ memo = NoValue
    /\ cachedKeywords = Null

CalculateSimilarity ==
    /\ pc = "start"
    /\ input.fn = "calculateSimilarity"
    /\ output' = calculateSimilarity(input.a, input.b)
    /\ pc' = "done"
    /\ UNCHANGED <<input, memo, cachedKeywords>>

NextSimilarity == CalculateSimilarity

SpecSimilarity == InitSimilarity /\ [][NextSimilarity]_vars

\* The entity sets of a and b overlap with ratio >= 0.6 and at least three
\* shared entities.
EntitiesOverlap(a, b) ==
    LET entitiesA == extractKeyEntities(CombinedText(a))
        entitiesB == extractKeyEntities(CombinedText(b))
        shared == Cardinality(entitiesA \cap entitiesB)
        smaller == IF Cardinality(entitiesA) < Cardinality(entitiesB)
                   THEN Cardinality(entitiesA) ELSE Cardinality(entitiesB)
    IN  shared >= 3 /\ shared * 10 >= 6 * smaller

\* a and b share at least two three-word phrases.
PhrasesShared(a, b) ==
    LET phrasesA == extractPhrases(CombinedText(a))
        phrasesB == extractPhrases(CombinedText(b))
    IN  Cardinality({phrasesA[i] : i \in DOMAIN phrasesA}
                      \cap {phrasesB[j] : j \in DOMAIN phrasesB}) >= 2

\* a and b both have a URL, and the normalized URLs differ.
DifferentUrls(a, b) ==
    /\ a.url # "" /\ b.url # ""
    /\ normalizeUrl(a.url) # normalizeUrl(b.url)

\* C25 as stated: for two items with different normalized URLs whose entity
\* sets overlap (ratio >= 0.6, at least 3 shared) or that share at least two
\* three-word phrases, calculateSimilarity returns at least 0.75, whatever
\* their title similarity.
C25_SameStoryFloor ==
    (/\ pc = "done"
     /\ input.fn = "calculateSimilarity"
     /\ DifferentUrls(input.a, input.b)
     /\ (EntitiesOverlap(input.a, input.b) \/ PhrasesShared(input.a, input.b)))
    => RGe(output, Rat(75, 100))


-----------------------------------------------------------------------------
(* findUnclusteredItems on the topics of clusterIntoTopics (SpecUnclustered),*)
(* as step 8 of the pipeline calls it.                                      *)

findUnclusteredItems(items, topics, max) ==
    LET clusteredIds ==
            UNION {{topics[t].receipts[r].id : r \in 1..Len(topics[t].receipts)} :
                      t \in 1..Len(topics)}
        free == SelectSeq(items, LAMBDA item :
                    item.duplicateOf = "" /\ item.id \notin clusteredIds)
    IN  SliceTo(sortByEngagement(free), max)

UnclusteredLimits == {1, 3, 20}

InitUnclustered ==
    /\ input \in
         {[fn |-> "findUnclusteredItems", items |-> StoryList(n, first),
           maxTopics |-> CLUSTERING_CONFIG.maxTopics, minClusterSize |-> mc,
           now |-> t, max |-> max] :
             n \in 0..MaxClusterItems, first \in 0..(Len(StoryItems) - 1),
             mc \in ClusterSizes, t \in ClockSet, max \in UnclusteredLimits}
    /\ output = NoValue
    /\ pc = "start"
    /\ memo = [emotions |-> StoryEmotions, tf |-> StoryTF]
    /\ cachedKeywords = Null

\* topics = clusterIntoTopics(items);
\* unclusteredItems = findUnclusteredItems(items, topics, max)
FindUnclustered ==
    /\ pc = "start"
    /\ input.fn = "findUnclusteredItems"
    /\ LET topics == clusterIntoTopics(input.items, input.maxTopics,
                                       input.minClusterSize, input.now)
       IN  output' = [topics |-> topics,
                      unclusteredItems |->
                          findUnclusteredItems(input.items, topics, input.max)]
    /\ pc' = "done"
    /\ UNCHANGED <<input, memo, cachedKeywords>>

NextUnclustered == FindUnclustered

SpecUnclustered == InitUnclustered /\ [][NextUnclustered]_vars

\* The ids of the members of the clusters the topics were built from.
MemberIds(topics) ==
    UNION {{topics[t].items[m].id : m \in 1..Len(topics[t].items)} :
              t \in 1..Len(topics)}

\* C26 as stated: findUnclusteredItems(items, topics, max) with topics =
\* clusterIntoTopics(items) returns at most max items, in non-increasing
\* engagement order, none with duplicateOf set and none a member of a cluster
\* from which a returned topic was built.
C26_Unclustered ==
    (pc = "done" /\ input.fn = "findUnclusteredItems")
    => LET found == output.unclusteredItems
       IN  /\ Len(found) <= input.max
           /\ \A k \in 1..(Len(found) - 1) :
                  found[k].engagement >= found[k + 1].engagement
           /\ \A k \in 1..Len(found) :
                  /\ found[k].duplicateOf = ""
                  /\ found[k].id \notin MemberIds(output.topics)


-----------------------------------------------------------------------------
(* The rate limiter (src/lib/ratelimit.ts, SpecRateLimit).  Times are       *)
(* counted in ticks of 20 seconds.  memo holds the module state: the store, *)
(* lastCleanup and the clock Date.now() reads; output is the list of the    *)
(* calls made so far with their results.                                    *)

MaxTime == 5
MaxCalls == 4

\* 60 * 1000 ms, in ticks.
CLEANUP_INTERVAL == 3

Identifiers == {"10.0.0.1", "anonymous"}

RateLimitConfigs ==
    {[windowMs |-> w, maxRequests |-> m] : w \in {2, 3}, m \in {1, 2}}

\* The keys of the store: the identifiers with an entry.
StoreKeys(store) == {id \in DOMAIN store : store[id] # Null}

\* cleanupExpiredEntries() when the clock shows now: the new store and
\* lastCleanup.
cleanupExpiredEntries(store, lastCleanup, now) ==
    IF now - lastCleanup < CLEANUP_INTERVAL
    THEN [store |-> store, lastCleanup |-> lastCleanup]
    ELSE LET keysToDelete == {key \in StoreKeys(store) : store[key].resetAt < now}
         IN  [store |-> [key \in DOMAIN store |->
                            IF key \in keysToDelete THEN Null ELSE store[key]],
              lastCleanup |-> now]

\* checkRateLimit(identifier, config) on the store after the cleanup, when
\* the clock shows now: the result and the new store.
checkRateLimit(store, identifier, config, now) ==
    LET entry == store[identifier]
    IN  IF entry = Null \/ entry.resetAt < now
        THEN LET newEntry == [count |-> 1, resetAt |-> now + config.windowMs,
                              firstRequestAt |-> now]
             IN  [result |-> [allowed |-> TRUE,
                              remaining |-> config.maxRequests - 1,
                              resetAt |-> newEntry.resetAt],
                  store |-> [store EXCEPT ![identifier] = newEntry]]
        ELSE IF entry.count >= config.maxRequests
        THEN [result |-> [allowed |-> FALSE, remaining |-> 0,
                          resetAt |-> entry.resetAt],
              store |-> store]
        ELSE [result |-> [allowed |-> TRUE,
                          remaining |-> config.maxRequests - (entry.count + 1),
                          resetAt |-> entry.resetAt],
              store |-> [store EXCEPT ![identifier].count = @ + 1]]

InitRateLimit ==
    /\ input \in {[fn |-> "checkRateLimit", config |-> c] : c \in RateLimitConfigs}
    /\ output = <<>>
    /\ pc = "serving"
    /\ memo = [store |-> [id \in Identifiers |-> Null], lastCleanup |-> 0,
               now |-> 0]
    /\ cachedKeywords = Null

\* Time passes.
Tick ==
    /\ input.fn = "checkRateLimit"
    /\ memo.now < MaxTime
    /\ memo' = [memo EXCEPT !.now = @ + 1]
    /\ UNCHANGED <<input, output, pc, cachedKeywords>>

\* A request of the client identifier reaches checkRateLimit.
CheckRateLimit(identifier) ==
    /\ input.fn = "checkRateLimit"
    /\ Len(output) < MaxCalls
    /\ LET cleaned == cleanupExpiredEntries(memo.store, memo.lastCleanup, memo.now)
           checked == checkRateLimit(cleaned.store, identifier, input.config,
                                     memo.now)
       IN  /\ memo' = [memo EXCEPT !.store = checked.store,
                                   !.lastCleanup = cleaned.lastCleanup]
           /\ output' = Append(output, [identifier |-> identifier,
                                        at |-> memo.now,
                                        result |-> checked.result])
    /\ UNCHANGED <<input, pc, cachedKeywords>>

NextRateLimit == Tick \/ \E id \in Identifiers : CheckRateLimit(id)

SpecRateLimit == InitRateLimit /\ [][NextRateLimit]_vars

\* The calls of identifier answered allowed = true at a time in
\* [from, from + windowMs).
AllowedWithin(identifier, from) ==
    {k \in 1..Len(output) :
        /\ output[k].identifier = identifier
        /\ output[k].result.allowed
        /\ from <= output[k].at
        /\ output[k].at < from + input.config.windowMs}

\* C27 as stated: for every identifier, the calls answered allowed = true
\* within any interval of length windowMs number at most maxRequests, and no
\* reported remaining is negative.
C27_SlidingWindow ==
    input.fn = "checkRateLimit"
    => /\ \A id \in Identifiers : \A from \in 0..MaxTime :
              Cardinality(AllowedWithin(id, from)) <= input.config.maxRequests
       /\ \A k \in 1..Len(output) : output[k].result.remaining >= 0


-----------------------------------------------------------------------------
(* POST /api/rescan and the background scan (src/app/api/rescan/route.ts,   *)
(* lib/scan-status.ts; SpecRescan).  A step is the code between two awaits. *)
(* memo holds the module state of scan-status.ts (currentStatus.phase,      *)
(* scanPromise), where each started scan stands and the timers set; pc is   *)
(* the position of each request and output its response.                    *)

MaxRequests == 3

Requests == 1..MaxRequests

\* isScanInProgress()
isScanInProgress(phase) == phase \notin {"idle", "complete", "error"}

InitRescan ==
    /\ input = [fn |-> "rescan"]
    /\ output = [r \in Requests |-> NoValue]
    /\ pc = [r \in Requests |-> "new"]
    /\ memo = [phase |-> "idle", scanPromise |-> Null,
               scan |-> [r \in Requests |-> "none"],
               timer |-> [r \in Requests |-> "none"]]
    /\ cachedKeywords = Null

\* POST up to its first await: 409 when a scan is in progress, else the
\* call of invalidatePulseCache.
Post(r) ==
    /\ input.fn = "rescan"
    /\ pc[r] = "new"
    /\ IF isScanInProgress(memo.phase)
       THEN /\ output' = [output EXCEPT ![r] = [status |-> 409,
                                                phase |-> memo.phase]]
            /\ pc' = [pc EXCEPT ![r] = "answered"]
       ELSE /\ pc' = [pc EXCEPT ![r] = "invalidating"]
            /\ UNCHANGED output
    /\ UNCHANGED <<input, memo, cachedKeywords>>

\* invalidatePulseCache has resolved: runBackgroundScan runs up to its await
\* of getSettings, setScanPromise, and the response.
StartScan(r) ==
    /\ input.fn = "rescan"
    /\ pc[r] = "invalidating"
    /\ memo' = [memo EXCEPT !.phase = "fetching", !.scanPromise = r,
                            !.scan[r] = "settings"]
    /\ output' = [output EXCEPT ![r] = [status |-> 200, phase |-> "fetching"]]
    /\ pc' = [pc EXCEPT ![r] = "answered"]
    /\ UNCHANGED <<input, cachedKeywords>>

\* invalidatePulseCache has rejected: the catch of POST answers 500.
InvalidateFails(r) ==
    /\ input.fn = "rescan"
    /\ pc[r] = "invalidating"
    /\ output' = [output EXCEPT ![r] = [status |-> 500, phase |-> memo.phase]]
    /\ pc' = [pc EXCEPT ![r] = "answered"]
    /\ UNCHANGED <<input, memo, cachedKeywords>>

\* getSettings has resolved: phase processing, then the await of runPipeline.
SettingsLoaded(r) ==
    /\ input.fn = "rescan"
    /\ memo.scan[r] = "settings"
    /\ memo' = [memo EXCEPT !.phase = "processing", !.scan[r] = "pipeline"]
    /\ UNCHANGED <<input, output, pc, cachedKeywords>>

\* runPipeline has resolved: phase saving, then the await of cachePulse.
PipelineDone(r) ==
    /\ input.fn = "rescan"
    /\ memo.scan[r] = "pipeline"
    /\ memo' = [memo EXCEPT !.phase = "saving", !.scan[r] = "caching"]
    /\ UNCHANGED <<input, output, pc, cachedKeywords>>

\* cachePulse has resolved: phase complete and the 30 second timer.
ScanComplete(r) ==
    /\ input.fn = "rescan"
    /\ memo.scan[r] = "caching"
    /\ memo' = [memo EXCEPT !.phase = "complete", !.scan[r] = "finished",
                            !.timer[r] = "complete"]
    /\ UNCHANGED <<input, output, pc, cachedKeywords>>

\* An await of the scan has rejected: phase error and the 60 second timer.
ScanFails(r) ==
    /\ input.fn = "rescan"
    /\ memo.scan[r] \in {"settings", "pipeline", "caching"}
    /\ memo' = [memo EXCEPT !.phase = "error", !.scan[r] = "failed",
                            !.timer[r] = "error"]
    /\ UNCHANGED <<input, output, pc, cachedKeywords>>

\* The timer of a scan fires: resetScanStatus() when the phase is still the
\* one the scan ended in.
TimerFires(r) ==
    /\ input.fn = "rescan"
    /\ memo.timer[r] # "none"
    /\ memo' = IF memo.phase = memo.timer[r]
               THEN [memo EXCEPT !.phase = "idle", !.scanPromise = Null,
                                 !.timer[r] = "none"]
               ELSE [memo EXCEPT !.timer[r] = "none"]
    /\ UNCHANGED <<input, output, pc, cachedKeywords>>

NextRescan ==
    \E r \in Requests :
        \/ Post(r)
        \/ StartScan(r)
        \/ InvalidateFails(r)
        \/ SettingsLoaded(r)
        \/ PipelineDone(r)
        \/ ScanComplete(r)
        \/ ScanFails(r)
        \/ TimerFires(r)

SpecRescan == InitRescan /\ [][NextRescan]_vars

\* The scans started and not yet ended.
ScansInFlight ==
    {r \in Requests : memo.scan[r] \in {"settings", "pipeline", "caching"}}

\* C28 as stated: at most one background scan is in flight at any time,
\* however the POST requests interleave.
C28_OneScan ==
    input.fn = "rescan" => Cardinality(ScansInFlight) <= 1


-----------------------------------------------------------------------------
(* The worker pool (src/lib/worker-pool.ts; SpecPool, SpecPoolFair).  A     *)
(* step is the code between two awaits.  memo holds the variables of one    *)
(* call of workerPool: results, nextIndex, completed, the index each worker *)
(* awaits (-1 once it has returned), and as history the indices in the      *)
(* order processor was called with them and in the order the calls settled. *)
(* output.value is what the returned promise has resolved with.  Indices    *)
(* count from 0 as in the code; results[i] of the code is results[i + 1].   *)

MaxPoolItems == 3
MaxConcurrency == 3

PoolItems == {"a", "b", "e", "s"}

\* How processor(item, index) settles: "e" rejects with an Error, "s" rejects
\* with a string, every other item fulfils.
Processor(item, index) ==
    IF item = "e"
    THEN [kind |-> "rejected",
          reason |-> [isError |-> TRUE, message |-> "failed"]]
    ELSE IF item = "s"
    THEN [kind |-> "rejected", reason |-> [isError |-> FALSE, message |-> "late"]]
    ELSE [kind |-> "fulfilled", value |-> <<item, index>>]

\* { index, result } of the try, { index, error } of the catch with
\* error instanceof Error ? error : new Error(String(error)).
WorkerResult(index, settled) ==
    IF settled.kind = "fulfilled"
    THEN [index |-> index, result |-> settled.value]
    ELSE [index |-> index,
          error |-> [isError |-> TRUE, message |-> settled.reason.message]]

\* Starts one worker per item, whatever the concurrency.
workerCountUnbounded(concurrency, n) == n

\* Math.min(concurrency, items.length)
workerCount(concurrency, n) == MinInt(concurrency, n)

\* Puts the entry into the first free slot: the results come in the order
\* the calls settle.
storeResultNext(results, index, entry) ==
    LET free == {k \in 1..Len(results) : results[k] = NoValue}
    IN  [results EXCEPT ![CHOOSE k \in free : \A m \in free : k <= m] = entry]

\* results[index] = entry
storeResult(results, index, entry) == [results EXCEPT ![index + 1] = entry]

\* The top of the loop of worker w: index = nextIndex++, return when there is
\* no item left, else the call processor(item, index), which the worker
\* awaits.
takeNext(state, w, n) ==
    LET index == state.nextIndex
    IN  IF index >= n
        THEN [state EXCEPT !.nextIndex = index + 1, !.awaiting[w] = -1]
        ELSE [state EXCEPT !.nextIndex = index + 1, !.awaiting[w] = index,
                           !.calls = Append(@, index)]

RECURSIVE startWorkers(_, _, _)
\* for (let i = 0; i < workerCount; i++) worker(), from worker w on.
startWorkers(state, w, n) ==
    IF w > Len(state.awaiting) THEN state
    ELSE startWorkers(takeNext(state, w, n), w + 1, n)

InitPool ==
    /\ input \in {[fn |-> "workerPool", items |-> its, concurrency |-> c] :
                    its \in SeqsUpTo(PoolItems, MaxPoolItems),
                    c \in 1..MaxConcurrency}
    /\ output = NoValue
    /\ pc = "start"
    /\ memo = NoValue
    /\ cachedKeywords = Null

\* The call workerPool(items, processor, concurrency) up to the return of
\* the promise.
WorkerPool ==
    /\ pc = "start"
    /\ input.fn = "workerPool"
    /\ LET n == Len(input.items)
           state == [results |-> [k \in 1..n |-> NoValue], nextIndex |-> 0,
                     completed |-> 0,
                     awaiting |-> [w \in 1..workerCount(input.concurrency, n)
                                     |-> -1],
                     calls |-> <<>>, settled |-> <<>>]
       IN  IF n = 0
           THEN /\ memo' = state
                /\ output' = [value |-> <<>>]
                /\ pc' = "resolved"
           ELSE /\ memo' = startWorkers(state, 1, n)
                /\ output' = NoValue
                /\ pc' = "pending"
    /\ UNCHANGED <<input, cachedKeywords>>

\* The processor call worker w awaits settles: the rest of the loop body and
\* the top of the next round.
Settle(w) ==
    /\ input.fn = "workerPool"
    /\ pc \in {"pending", "resolved"}
    /\ w \in DOMAIN memo.awaiting
    /\ memo.awaiting[w] >= 0
    /\ LET n == Len(input.items)
           index == memo.awaiting[w]
           entry == WorkerResult(index, Processor(input.items[index + 1], index))
           stored == [memo EXCEPT
                         !.results = storeResult(@, index, entry),
                         !.completed = @ + 1,
                         !.settled = Append(@, index)]
       IN  /\ memo' = takeNext(stored, w, n)
           /\ IF stored.completed = n
              THEN output' = [value |-> stored.results] /\ pc' = "resolved"
              ELSE UNCHANGED <<output, pc>>
    /\ UNCHANGED <<input, cachedKeywords>>

NextPool == WorkerPool \/ \E w \in 1..MaxConcurrency : Settle(w)

SpecPool == InitPool /\ [][NextPool]_vars

\* The call is made, and every processor call eventually settles.
SpecPoolFair ==
    /\ InitPool
    /\ [][NextPool]_vars
    /\ WF_vars(WorkerPool)
    /\ \A w \in 1..MaxConcurrency : WF_vars(Settle(w))

PoolCalled == input.fn = "workerPool" /\ pc # "start"

\* The processor calls in flight.
InFlight == {w \in DOMAIN memo.awaiting : memo.awaiting[w] >= 0}

\* How many times processor was called with index.
TimesHanded(index) ==
    Cardinality({k \in 1..Len(memo.calls) : memo.calls[k] = index})

ExpectedEntry(index) ==
    LET item == input.items[index + 1]
    IN  IF item \in {"e", "s"}
        THEN [index |-> index,
              error |-> [isError |-> TRUE,
                         message |-> IF item = "e" THEN "failed" ELSE "late"]]
        ELSE [index |-> index, result |-> <<item, index>>]

\* Every item has settled.
AllSettled ==
    \A index \in 0..(Len(input.items) - 1) :
        \E k \in 1..Len(memo.settled) : memo.settled[k] = index

\* The promise has resolved only after all items settled, with one entry per
\* item in original order.
ResolvedInOrder ==
    (input.fn = "workerPool" /\ pc = "resolved")
    => /\ AllSettled
       /\ InFlight = {}
       /\ Len(output.value) = Len(input.items)
       /\ \A k \in 1..Len(output.value) :
              output.value[k] = ExpectedEntry(k - 1)

=============================================================================
